---- MODULE Spec2Model ----
(***************************************************************************)
(* Assembly engine: indexer, intersection retriever, deterministic         *)
(* assembler, constrained assembler with its validator chain, and the      *)
(* interactive workflow.  Text is modelled as TLA+ strings, character by   *)
(* character, so that substring tests, regular expressions and formatting  *)
(* are computed the way the Python code computes them.                     *)
(***************************************************************************)
EXTENDS Integers, Sequences, FiniteSets, TLC

\* ------------------------------------------------------------------------
\* Text primitives (Python str / re semantics on ASCII text)
\* ------------------------------------------------------------------------

LowerChars == "abcdefghijklmnopqrstuvwxyz"
UpperChars == "ABCDEFGHIJKLMNOPQRSTUVWXYZ"
DigitChars == "0123456789"
SpaceChars == " \n\t\r"

\* s[i] as a one-character string
Ch(s, i) == SubSeq(s, i, i)

Min(S) == CHOOSE m \in S : \A n \in S : m <= n
Max(S) == 0 - Min({ 0 - n : n \in S })

\* Python: s.startswith(p), and the same test at offset i (1-based)
StartsAt(s, i, p) == i + Len(p) - 1 <= Len(s) /\ SubSeq(s, i, i + Len(p) - 1) = p
StartsWith(s, p) == StartsAt(s, 1, p)

\* 1-based position of the first occurrence of p in s at or after i (0: none)
FindFrom(s, p, i) ==
    LET at == { k \in i..(Len(s) - Len(p) + 1) : SubSeq(s, k, k + Len(p) - 1) = p }
    IN  IF at = {} THEN 0 ELSE Min(at)

\* Python: needle in hay
Contains(hay, needle) == FindFrom(hay, needle, 1) > 0

\* the characters of s, as a set of one-character strings
CharsOf(s) == { Ch(s, i) : i \in 1..Len(s) }
LowerSet == CharsOf(LowerChars)
UpperSet == CharsOf(UpperChars)
DigitSet == CharsOf(DigitChars)
SpaceSet == CharsOf(SpaceChars)
WordSet == LowerSet \cup UpperSet \cup DigitSet \cup {"_"}
LowerMap == [c \in UpperSet |-> Ch(LowerChars, FindFrom(UpperChars, c, 1))]

IsLower(c) == c \in LowerSet
IsUpper(c) == c \in UpperSet
IsDigit(c) == c \in DigitSet
IsSpace(c) == c \in SpaceSet
\* regex \w
IsWordChar(c) == c \in WordSet

\* character classes: \w, \d, \s, and blanks within a line
InClass(c, class) ==
    IF class = "w" THEN IsWordChar(c)
    ELSE IF class = "d" THEN IsDigit(c)
    ELSE IF class = "s" THEN IsSpace(c)
    ELSE c \in {" ", "\t"}

\* the position after the run of class characters that starts at i
SkipClass(s, i, class) ==
    LET stop == { k \in i..Len(s) : ~InClass(Ch(s, k), class) }
    IN  IF stop = {} THEN Len(s) + 1 ELSE Min(stop)
\* the first position at or after i that holds a class character (0: none)
FindClass(s, i, class) ==
    LET at == { k \in i..Len(s) : InClass(Ch(s, k), class) }
    IN  IF at = {} THEN 0 ELSE Min(at)

SkipSpaces(s, i) == SkipClass(s, i, "s")
SkipBlanks(s, i) == SkipClass(s, i, "b")
SkipWord(s, i) == SkipClass(s, i, "w")
SkipDigits(s, i) == SkipClass(s, i, "d")

RECURSIVE ConcatRange(_, _, _)
\* pieces[lo] \o ... \o pieces[hi], by halves
ConcatRange(pieces, lo, hi) ==
    IF lo > hi THEN ""
    ELSE IF lo = hi THEN pieces[lo]
    ELSE LET mid == (lo + hi) \div 2
         IN  ConcatRange(pieces, lo, mid) \o ConcatRange(pieces, mid + 1, hi)

LowerOf(c) == IF c \in UpperSet THEN LowerMap[c] ELSE c

\* Python: s.lower()
ToLower(s) == ConcatRange([i \in 1..Len(s) |-> LowerOf(Ch(s, i))], 1, Len(s))

LStrip(s) == SubSeq(s, SkipSpaces(s, 1), Len(s))

\* Python: s.rstrip()
RStrip(s) ==
    LET keep == { k \in 1..Len(s) : ~IsSpace(Ch(s, k)) }
    IN  IF keep = {} THEN "" ELSE SubSeq(s, 1, Max(keep))

\* Python: s.strip()
Strip(s) == RStrip(LStrip(s))

RECURSIVE SplitFrom(_, _, _)
SplitFrom(s, sep, start) ==
    LET at == FindFrom(s, sep, start)
    IN  IF at = 0 THEN << SubSeq(s, start, Len(s)) >>
        ELSE << SubSeq(s, start, at - 1) >> \o SplitFrom(s, sep, at + Len(sep))

\* Python: s.split(sep) for a non-empty separator
Split(s, sep) == SplitFrom(s, sep, 1)

RECURSIVE Join(_, _)
\* Python: sep.join(parts)
Join(parts, sep) ==
    IF Len(parts) = 0 THEN ""
    ELSE IF Len(parts) = 1 THEN parts[1]
    ELSE parts[1] \o sep \o Join(Tail(parts), sep)

RECURSIVE RunsFrom(_, _, _)
\* maximal runs of characters of one class, left to right
RunsFrom(s, class, i) ==
    LET start == FindClass(s, i, class)
        end == SkipClass(s, start, class)
    IN  IF start = 0 THEN << >>
        ELSE << SubSeq(s, start, end - 1) >> \o RunsFrom(s, class, end)

\* Python: re.findall(r'\w+', s) and re.findall(r'\d+', s)
FindAllWords(s) == RunsFrom(s, "w", 1)
FindAllDigits(s) == RunsFrom(s, "d", 1)

RECURSIVE NatToStr(_)
\* Python: str(n) for n >= 0
NatToStr(n) ==
    IF n < 10 THEN Ch(DigitChars, n + 1)
    ELSE NatToStr(n \div 10) \o Ch(DigitChars, (n % 10) + 1)

Range(f) == { f[i] : i \in DOMAIN f }

\* ------------------------------------------------------------------------
\* Python dict: insertion-ordered sequence of [key, val] items, keys unique
\* ------------------------------------------------------------------------

EmptyDict == << >>
DictKeys(d) == [i \in 1..Len(d) |-> d[i].key]
DictHas(d, k) == \E i \in 1..Len(d) : d[i].key = k
DictGet(d, k) == d[CHOOSE i \in 1..Len(d) : d[i].key = k].val
\* d[k] = v : an existing key keeps its position, a new key goes last
DictSet(d, k, v) ==
    IF DictHas(d, k)
    THEN [i \in 1..Len(d) |-> IF d[i].key = k THEN [key |-> k, val |-> v] ELSE d[i]]
    ELSE Append(d, [key |-> k, val |-> v])

\* Python: rec.get(k, default) on a dict with string keys (a TLA+ record)
Get(rec, k, default) == IF k \in DOMAIN rec THEN rec[k] ELSE default

\* Optional values: None, or a value
None == [some |-> FALSE]
Some(v) == [some |-> TRUE, val |-> v]

\* An index value is either the structured form (a dict) or the legacy form
\* (a bare source string).
Structured(rec) == [kind |-> "dict", d |-> rec]
Legacy(src) == [kind |-> "str", s |-> src]

DefaultSignature == [params |-> << >>, returns |-> None]

\* ------------------------------------------------------------------------
\* Indexer (src/src/indexer.py)
\* ------------------------------------------------------------------------

\* os.path.basename / os.path.splitext(...)[0]
LastIndexOf(s, c) ==
    LET at == { k \in 1..Len(s) : Ch(s, k) = c }
    IN  IF at = {} THEN 0 ELSE Max(at)
Basename(path) == SubSeq(path, LastIndexOf(path, "/") + 1, Len(path))
LeadingDots(s) ==
    LET stop == { k \in 1..Len(s) : Ch(s, k) /= "." }
    IN  IF stop = {} THEN Len(s) ELSE Min(stop) - 1
SplitextRoot(name) ==
    LET dot == LastIndexOf(name, ".")
    IN  IF dot > LeadingDots(name) THEN SubSeq(name, 1, dot - 1) ELSE name
ModuleStem(path) == SplitextRoot(Basename(path))

\* source_code[start:end] on the file's bytes (0-based, end exclusive)
Slice(bytes, span) == SubSeq(bytes, span.start + 1, span.end)

\* The parameter name parse_file takes from one child of the parameters node,
\* or no name when the child's type is not one of the three it handles.
ParamNameSpan(child) ==
    IF child.type = "identifier" THEN Some(child.span)
    ELSE IF child.type \in {"typed_parameter", "default_parameter"}
         THEN (IF Len(child.children) = 0 THEN None
               ELSE IF "name" \in DOMAIN child THEN Some(child.name)
               ELSE Some(child.children[1]))
    ELSE None

RECURSIVE ExtractParams(_, _)
ExtractParams(bytes, children) ==
    IF Len(children) = 0 THEN << >>
    ELSE LET nm == ParamNameSpan(children[1])
         IN  (IF nm.some THEN << Slice(bytes, nm.val) >> ELSE << >>)
             \o ExtractParams(bytes, Tail(children))

\* signature = {"params": [...], "returns": None}
ExtractSignature(bytes, node) ==
    [params |-> IF "parameters" \in DOMAIN node
                THEN ExtractParams(bytes, node.parameters) ELSE << >>,
     returns |-> None]

\* StoreChunk as it would be with the index kept as a list that grows with
\* every chunk
StoreChunkAppend(index, func_name, chunk_source, current_file, signature) ==
    Append(index, [key |-> func_name,
                   val |-> Structured([source |-> chunk_source, filename |-> current_file,
                                       signature |-> signature])])

\* self.index[func_name] = {"source", "filename", "signature"}
StoreChunk(index, func_name, chunk_source, current_file, signature) ==
    DictSet(index, func_name,
            Structured([source |-> chunk_source, filename |-> current_file,
                        signature |-> signature]))

\* captures is a dict {capture name: [nodes]}: the nodes are handled group by
\* group, the groups in the order their capture name first appears.
RECURSIVE SelectType(_, _)
SelectType(nodes, t) ==
    IF Len(nodes) = 0 THEN << >>
    ELSE (IF nodes[1].type = t THEN << nodes[1] >> ELSE << >>) \o SelectType(Tail(nodes), t)
CaptureOrder(nodes) ==
    IF Len(nodes) = 0 THEN << >>
    ELSE LET first == nodes[1].type
             other == IF first = "function_definition" THEN "class_definition"
                      ELSE "function_definition"
         IN  SelectType(nodes, first) \o SelectType(nodes, other)

RECURSIVE ProcessNodes(_, _, _, _)
\* The loop over the captured nodes.  A node whose bytes are not valid UTF-8
\* makes .decode raise: the loop stops with the index as changed so far.
ProcessNodes(index, bytes, current_file, nodes) ==
    IF Len(nodes) = 0 THEN [index |-> index, raised |-> FALSE]
    ELSE LET node == nodes[1]
         IN  IF ~node.utf8 THEN [index |-> index, raised |-> TRUE]
             ELSE IF "name" \notin DOMAIN node
                  THEN ProcessNodes(index, bytes, current_file, Tail(nodes))
             ELSE ProcessNodes(
                      StoreChunk(index, Slice(bytes, node.name), Slice(bytes, node.span),
                                 current_file, ExtractSignature(bytes, node)),
                      bytes, current_file, Tail(nodes))

\* Indexer.parse_file: the index afterwards, the current file, and whether it raised
ParseFileResult(index, current_file, parser_ok, file) ==
    IF ~parser_ok THEN [index |-> index, current_file |-> current_file, raised |-> TRUE]
    ELSE IF ~file.readable
         THEN [index |-> index, current_file |-> current_file, raised |-> TRUE]
    ELSE LET stem == ModuleStem(file.path)
             r == ProcessNodes(index, file.bytes, stem, CaptureOrder(file.nodes))
         IN  [index |-> r.index, current_file |-> stem, raised |-> r.raised]


\* Indexer.export_index: json.dump of the index; _load_index: json.load of it.
\* JSON keeps the structured and the legacy form of every value as they are.
ExportIndex(index) == [exists |-> TRUE, content |-> index]
MissingFile == [exists |-> FALSE, content |-> EmptyDict]

\* ------------------------------------------------------------------------
\* Intersection retriever (src/src/retriever.py)
\* ------------------------------------------------------------------------

MinTokenLen == 3

\* IntersectionEngine._load_index: a missing file gives the empty index
LoadIndex(file) == IF file.exists THEN file.content ELSE EmptyDict

\* tokens = set(re.findall(r'\w+', query)); target_tokens keeps those longer
\* than the noise threshold
TargetTokens(query) == { t \in Range(FindAllWords(query)) : Len(t) > MinTokenLen }

\* the source, filename and signature search reads from one index value
EntrySource(v) == IF v.kind = "dict" THEN Get(v.d, "source", "") ELSE v.s
EntryFilename(v) == IF v.kind = "dict" THEN Get(v.d, "filename", "unknown") ELSE "unknown"
EntrySignature(v) ==
    IF v.kind = "dict" THEN Get(v.d, "signature", DefaultSignature) ELSE DefaultSignature

\* MatchesAll as it would be if one matching token were enough
MatchesAny(func_name, v, tokens) ==
    LET source_lower == ToLower(EntrySource(v))
        name_lower == ToLower(func_name)
    IN  \E t \in tokens :
            Contains(source_lower, ToLower(t)) \/ Contains(name_lower, ToLower(t))

\* matches_all: every target token is in the lowered source or the lowered name
MatchesAll(func_name, v, tokens) ==
    LET source_lower == ToLower(EntrySource(v))
        name_lower == ToLower(func_name)
    IN  \A t \in tokens :
            ~ ( ~Contains(source_lower, ToLower(t)) /\ ~Contains(name_lower, ToLower(t)) )

RECURSIVE FinalResults(_, _)
FinalResults(index, tokens) ==
    IF Len(index) = 0 THEN << >>
    ELSE (IF MatchesAll(index[1].key, index[1].val, tokens)
          THEN << [source |-> EntrySource(index[1].val),
                   filename |-> EntryFilename(index[1].val),
                   func_name |-> index[1].key,
                   signature |-> EntrySignature(index[1].val)] >>
          ELSE << >>)
         \o FinalResults(Tail(index), tokens)

\* Search as it would be without line 113: the list is returned as it is,
\* empty or not
SearchNoNullCheck(index, query) ==
    LET tokens == TargetTokens(query)
    IN  IF tokens = {} THEN None ELSE Some(FinalResults(index, tokens))

\* IntersectionEngine.search: None, or the non-empty list of matching chunks
Search(index, query) ==
    LET tokens == TargetTokens(query)
    IN  IF tokens = {} THEN None
        ELSE LET final_results == FinalResults(index, tokens)
             IN  IF Len(final_results) = 0 THEN None ELSE Some(final_results)


\* ------------------------------------------------------------------------
\* The workspace: source files as tree-sitter presents them to parse_file
\* (the bytes, and the captured definition nodes in document order with the
\* byte spans of their name and parameter children)
\* ------------------------------------------------------------------------

\* byte span [start, end) of the first occurrence of text at or after offset from
SpanFrom(bytes, text, from) ==
    LET at == FindFrom(bytes, text, from + 1)
    IN  [start |-> at - 1, end |-> at - 1 + Len(text)]
SpanOf(bytes, text) == SpanFrom(bytes, text, 0)

Ident(bytes, text, from) == [type |-> "identifier", span |-> SpanFrom(bytes, text, from)]
Punct(bytes, text, from) == [type |-> text, span |-> SpanFrom(bytes, text, from)]

UtilsBytes == "def foo(x):\n    return 'foo'\n\ndef bar(y):\n    return 'bar'\n"
UtilsFile ==
    LET b == UtilsBytes
        foo == SpanOf(b, "def foo(x):\n    return 'foo'")
        bar == SpanOf(b, "def bar(y):\n    return 'bar'")
    IN  [path |-> "./utils.py", readable |-> TRUE, bytes |-> b,
         nodes |-> <<
           [type |-> "function_definition", utf8 |-> TRUE, span |-> foo,
            name |-> SpanFrom(b, "foo", foo.start),
            parameters |-> << Punct(b, "(", foo.start), Ident(b, "x", foo.start + 7),
                              Punct(b, ")", foo.start) >>],
           [type |-> "function_definition", utf8 |-> TRUE, span |-> bar,
            name |-> SpanFrom(b, "bar", bar.start),
            parameters |-> << Punct(b, "(", bar.start), Ident(b, "y", bar.start + 7),
                              Punct(b, ")", bar.start) >>] >>]

UsersBytes ==
    "class User:\n    def create_user(self, name: str, age=1):\n        pass\n\ndef foo():\n    return 'users'\n"
UsersFile ==
    LET b == UsersBytes
        cls == SpanOf(b, "class User:\n    def create_user(self, name: str, age=1):\n        pass")
        cu == SpanOf(b, "def create_user(self, name: str, age=1):\n        pass")
        foo == SpanOf(b, "def foo():\n    return 'users'")
        typed == SpanFrom(b, "name: str", cu.start)
        dflt == SpanFrom(b, "age=1", cu.start)
    IN  [path |-> "./src/users.py", readable |-> TRUE, bytes |-> b,
         nodes |-> <<
           [type |-> "class_definition", utf8 |-> TRUE, span |-> cls,
            name |-> SpanFrom(b, "User", cls.start)],
           [type |-> "function_definition", utf8 |-> TRUE, span |-> cu,
            name |-> SpanFrom(b, "create_user", cu.start),
            parameters |-> <<
              Punct(b, "(", cu.start),
              Ident(b, "self", cu.start),
              Punct(b, ",", cu.start),
              [type |-> "typed_parameter", span |-> typed,
               children |-> << SpanFrom(b, "name", typed.start),
                               SpanFrom(b, ":", typed.start),
                               SpanFrom(b, "str", typed.start) >>],
              [type |-> "default_parameter", span |-> dflt,
               name |-> SpanFrom(b, "age", dflt.start),
               children |-> << SpanFrom(b, "age", dflt.start),
                               SpanFrom(b, "=", dflt.start),
                               SpanFrom(b, "1", dflt.start) >>],
              Punct(b, ")", cu.start) >>],
           [type |-> "function_definition", utf8 |-> TRUE, span |-> foo,
            name |-> SpanFrom(b, "foo", foo.start),
            parameters |-> << Punct(b, "(", foo.start), Punct(b, ")", foo.start) >>] >>]

\* a script saved by an earlier session, found again by the workspace walk
OutputBytes == "def foo(n):\n    return n\n"
OutputFile ==
    LET b == OutputBytes
        foo == SpanOf(b, "def foo(n):\n    return n")
    IN  [path |-> "./output.py", readable |-> TRUE, bytes |-> b,
         nodes |-> <<
           [type |-> "function_definition", utf8 |-> TRUE, span |-> foo,
            name |-> SpanFrom(b, "foo", foo.start),
            parameters |-> << Punct(b, "(", foo.start), Ident(b, "n", foo.start + 7),
                              Punct(b, ")", foo.start) >>] >>]

\* a file whose second definition holds bytes that are not valid UTF-8
\* (written "?" here; the node is marked)
LatinBytes == "def good():\n    pass\n\ndef bar(z):\n    return '?'\n"
LatinFile ==
    LET b == LatinBytes
        good == SpanOf(b, "def good():\n    pass")
        bar == SpanOf(b, "def bar(z):\n    return '?'")
    IN  [path |-> "./latin.py", readable |-> TRUE, bytes |-> b,
         nodes |-> <<
           [type |-> "function_definition", utf8 |-> TRUE, span |-> good,
            name |-> SpanFrom(b, "good", good.start),
            parameters |-> << Punct(b, "(", good.start), Punct(b, ")", good.start) >>],
           [type |-> "function_definition", utf8 |-> FALSE, span |-> bar,
            name |-> SpanFrom(b, "bar", bar.start),
            parameters |-> << Punct(b, "(", bar.start), Ident(b, "z", bar.start + 7),
                              Punct(b, ")", bar.start) >>] >>]

\* a file open() cannot read
LockedFile == [path |-> "./locked.py", readable |-> FALSE, bytes |-> "", nodes |-> << >>]

Workspace == << UtilsFile, UsersFile, OutputFile, LatinFile, LockedFile >>


\* ------------------------------------------------------------------------
\* Deterministic assembler (src/src/assembler_bridge.py)
\* ------------------------------------------------------------------------

DefaultArgBase == 10

\* imports[fname] = [func_name, ...] over the chunks, in first-seen order;
\* build_deterministic_code skips a name the file's list already holds,
\* generate_glue_code appends every name
\* GroupImports as it would be if every name were listed under the first
\* chunk's file
GroupImportsOneFile(chunks, imports, dedupe) ==
    IF Len(chunks) = 0 THEN imports
    ELSE << [key |-> Get(chunks[1], "filename", "unknown"),
             val |-> [i \in 1..Len(chunks) |-> Get(chunks[i], "func_name", "unknown")]] >>

RECURSIVE GroupImports(_, _, _)
GroupImports(chunks, imports, dedupe) ==
    IF Len(chunks) = 0 THEN imports
    ELSE LET fname == Get(chunks[1], "filename", "unknown")
             func_name == Get(chunks[1], "func_name", "unknown")
             have == IF DictHas(imports, fname) THEN DictGet(imports, fname) ELSE << >>
             funcs == IF dedupe /\ func_name \in Range(have) THEN have
                      ELSE Append(have, func_name)
         IN  GroupImports(Tail(chunks), DictSet(imports, fname, funcs), dedupe)

\* "\n".join(f"from {f} import {', '.join(funcs)}" for f, funcs in imports.items())
ImportBlock(imports) ==
    Join([i \in 1..Len(imports) |->
             "from " \o imports[i].key \o " import " \o Join(imports[i].val, ", ")],
         "\n")

\* the parameter list a call is built from: the signature's params without a
\* leading self
CallParams(chunk) ==
    LET signature == Get(chunk, "signature", DefaultSignature)
        params == Get(signature, "params", << >>)
    IN  IF Len(params) > 0 /\ params[1] = "self" THEN Tail(params) ELSE params

FunctionInfo(chunks) ==
    [i \in 1..Len(chunks) |->
        [name |-> Get(chunks[i], "func_name", "unknown"),
         params |-> CallParams(chunks[i]),
         param_count |-> Len(CallParams(chunks[i]))]]

\* BuildArgs as it would be if number_idx were advanced only after the call:
\* every integer argument of one call takes the same query integer
BuildArgsSameInteger(j, param_count, has_result, numbers, number_idx) ==
    [args |-> [a \in 1..(param_count - j) |->
                  IF has_result /\ j + a - 1 = 0 THEN "result"
                  ELSE IF number_idx < Len(numbers) THEN numbers[number_idx + 1]
                  ELSE NatToStr(DefaultArgBase + j + a - 1)],
     number_idx |-> IF number_idx < Len(numbers) THEN number_idx + 1 ELSE number_idx]

RECURSIVE BuildArgs(_, _, _, _, _)
\* the argument loop of one call: j runs over range(param_count); returns the
\* arguments and the advanced number_idx
BuildArgs(j, param_count, has_result, numbers, number_idx) ==
    IF j >= param_count THEN [args |-> << >>, number_idx |-> number_idx]
    ELSE IF has_result /\ j = 0
         THEN LET rest == BuildArgs(j + 1, param_count, has_result, numbers, number_idx)
              IN  [args |-> << "result" >> \o rest.args, number_idx |-> rest.number_idx]
    ELSE IF number_idx < Len(numbers)
         THEN LET rest == BuildArgs(j + 1, param_count, has_result, numbers, number_idx + 1)
              IN  [args |-> << numbers[number_idx + 1] >> \o rest.args,
                   number_idx |-> rest.number_idx]
    ELSE LET rest == BuildArgs(j + 1, param_count, has_result, numbers, number_idx)
         IN  [args |-> << NatToStr(DefaultArgBase + j) >> \o rest.args,
              number_idx |-> rest.number_idx]

RECURSIVE CallLines(_, _, _, _, _)
\* the loop over function_info: the step comment and the call of each function
CallLines(info, i, has_result, numbers, number_idx) ==
    IF i > Len(info) THEN [lines |-> << >>, has_result |-> has_result]
    ELSE LET func == info[i]
             header == "# Step " \o NatToStr(i) \o ": Call " \o func.name \o " ("
                       \o NatToStr(func.param_count) \o " params)"
             a == BuildArgs(0, func.param_count, has_result, numbers, number_idx)
             call == IF func.param_count = 0 THEN func.name \o "()"
                     ELSE "result = " \o func.name \o "(" \o Join(a.args, ", ") \o ")"
             rest == CallLines(info, i + 1, has_result \/ func.param_count > 0,
                               numbers, a.number_idx)
         IN  [lines |-> << header, call >> \o rest.lines, has_result |-> rest.has_result]

PrintResultLine == "print(f'Result: {result}')"

\* build_deterministic_code(chunks, query)
BuildDeterministicCode(chunks, query) ==
    IF Len(chunks) = 0
    THEN [reasoning |-> "ERROR: No matching chunks found. Cannot proceed.",
          code |-> "# Error: Insufficient data for assembly",
          filename |-> "output.py"]
    ELSE LET import_block == ImportBlock(GroupImports(chunks, EmptyDict, TRUE))
             info == FunctionInfo(chunks)
             numbers == FindAllDigits(query)
             body == CallLines(info, 1, FALSE, numbers, 0)
             code_lines == << import_block, "" >> \o body.lines
                           \o (IF body.has_result THEN << "", PrintResultLine >> ELSE << >>)
         IN  [reasoning |-> "Deterministic assembly using " \o NatToStr(Len(chunks))
                            \o " chunks with signature-aware calls: "
                            \o Join([i \in 1..Len(info) |-> info[i].name], ", "),
              code |-> Join(code_lines, "\n"),
              filename |-> "output.py"]


\* ------------------------------------------------------------------------
\* Constrained assembler: code cleaning (clean_code)
\* ------------------------------------------------------------------------

\* The markdown fence is three backquotes; a TLA+ string cannot hold a
\* backquote, so the model's texts write the backquote as "~" (a character
\* the code treats like any other non-space, non-word character).
Fence == "~~~"

\* ^ under re.MULTILINE: the start of the text or just after a newline
AtLineStart(s, i) == i = 1 \/ Ch(s, i - 1) = "\n"

\* the end (exclusive) of the opening-fence match that starts at i, or 0
OpeningFenceEnd(s, i) ==
    IF AtLineStart(s, i) /\ StartsAt(s, i, Fence)
    THEN LET k == IF StartsAt(s, i + 3, "python") THEN i + 9
                  ELSE IF StartsAt(s, i + 3, "py") THEN i + 5
                  ELSE i + 3
         IN  SkipSpaces(s, k)
    ELSE 0

RECURSIVE StripOpeningFences(_, _)
\* re.sub(r'^<fence>(?:python|py)?\s*\n?', '', code, flags=re.MULTILINE)
StripOpeningFences(s, i) ==
    LET at == { k \in i..Len(s) : OpeningFenceEnd(s, k) > 0 }
    IN  IF at = {} THEN SubSeq(s, i, Len(s))
        ELSE SubSeq(s, i, Min(at) - 1) \o StripOpeningFences(s, OpeningFenceEnd(s, Min(at)))

\* $ under re.MULTILINE after a greedy \s*: the largest k in from..to at which
\* the text ends or a newline follows (0: none)
LastLineEnd(s, from, to) ==
    LET at == { k \in from..to : k = Len(s) + 1 \/ Ch(s, k) = "\n" }
    IN  IF at = {} THEN 0 ELSE Max(at)

\* the end (exclusive) of the closing-fence match that starts at i, or 0
ClosingFenceEnd(s, i) ==
    LET after == IF Ch(s, i) = "\n" /\ StartsAt(s, i + 1, Fence) THEN i + 4
                 ELSE IF StartsAt(s, i, Fence) THEN i + 3
                 ELSE 0
    IN  IF after = 0 THEN 0 ELSE LastLineEnd(s, after, SkipSpaces(s, after))

RECURSIVE StripClosingFences(_, _)
\* re.sub(r'\n?<fence>\s*$', '', code, flags=re.MULTILINE)
StripClosingFences(s, i) ==
    LET at == { k \in i..Len(s) : ClosingFenceEnd(s, k) > 0 }
    IN  IF at = {} THEN SubSeq(s, i, Len(s))
        ELSE SubSeq(s, i, Min(at) - 1) \o StripClosingFences(s, ClosingFenceEnd(s, Min(at)))

\* the position of the newline that ends the line holding i (Len + 1: none)
LineEnd(s, i) ==
    LET at == FindFrom(s, "\n", i) IN IF at = 0 THEN Len(s) + 1 ELSE at

SelfImportPrefix == "from output import"

RECURSIVE StripSelfImports(_, _)
\* re.sub(r'^from output import.*\n?', '', code, flags=re.MULTILINE)
StripSelfImports(s, i) ==
    LET at == { k \in i..Len(s) : AtLineStart(s, k) /\ StartsAt(s, k, SelfImportPrefix) }
    IN  IF at = {} THEN SubSeq(s, i, Len(s))
        ELSE LET e == LineEnd(s, Min(at) + Len(SelfImportPrefix))
             IN  SubSeq(s, i, Min(at) - 1)
                 \o StripSelfImports(s, IF e <= Len(s) THEN e + 1 ELSE e)

\* clean_code(code)
CleanCode(code) ==
    Strip(StripSelfImports(StripClosingFences(StripOpeningFences(code, 1), 1), 1))


\* ------------------------------------------------------------------------
\* Constrained assembler: response extraction
\* ------------------------------------------------------------------------

\* the position of the first brace at or after i (0: none)
NextBrace(s, i) ==
    LET at == { k \in i..Len(s) : Ch(s, k) \in {"{", "}"} }
    IN  IF at = {} THEN 0 ELSE Min(at)

ReasoningKey == "\"reasoning\""
CodeKey == "\"code\""

RECURSIVE SearchJson(_, _)
\* re.search(r'\{[^{}]*"reasoning"[^{}]*"code"[^{}]*\}', response, re.DOTALL):
\* the leftmost brace-free region {...} that holds "reasoning" and, after it,
\* "code"
SearchJson(s, i) ==
    LET open == NextBrace(s, i)
    IN  IF open = 0 THEN None
        ELSE IF Ch(s, open) = "}" THEN SearchJson(s, open + 1)
        ELSE LET close == NextBrace(s, open + 1)
                 inner == SubSeq(s, open + 1, close - 1)
                 r == FindFrom(inner, ReasoningKey, 1)
             IN  IF close = 0 THEN None
                 ELSE IF Ch(s, close) = "}" /\ r > 0
                         /\ FindFrom(inner, CodeKey, r + Len(ReasoningKey)) > 0
                      THEN Some(SubSeq(s, open, close))
                 ELSE SearchJson(s, open + 1)

\* json.loads: objects whose keys are strings, arrays, strings, non-negative
\* integers and the literals true, false, null.  A value is
\* [t |-> "str" | "num" | "lit" | "obj" | "arr", v |-> its content].
JsonFail == [ok |-> FALSE]

\* a character at j is escaped when an odd run of backslashes, counted back
\* to from, stands before it
Escaped(s, j, from) ==
    IF j <= from \/ Ch(s, j - 1) /= "\\" THEN FALSE
    ELSE LET stop == { k \in from..(j - 1) : Ch(s, k) /= "\\" }
             first == IF stop = {} THEN from ELSE Max(stop) + 1
         IN  (j - first) % 2 = 1

\* the first quote q at or after from that no backslash escapes (0: none)
ClosingQuote(s, from, q) ==
    LET at == { k \in from..Len(s) : Ch(s, k) = q /\ ~Escaped(s, k, from) }
    IN  IF at = {} THEN 0 ELSE Min(at)

RECURSIVE DecodeJsonEscapes(_)
\* the text of a JSON string body: [ok, val]; a bad escape is a decode error
DecodeJsonEscapes(t) ==
    LET at == FindFrom(t, "\\", 1)
        e == Ch(t, at + 1)
        rest == DecodeJsonEscapes(SubSeq(t, at + 2, Len(t)))
        char == IF e = "n" THEN "\n" ELSE IF e = "t" THEN "\t"
                ELSE IF e = "r" THEN "\r" ELSE e
    IN  IF at = 0 THEN [ok |-> TRUE, val |-> t]
        ELSE IF e \notin {"n", "t", "r", "\"", "\\", "/"} \/ ~rest.ok THEN JsonFail
        ELSE [ok |-> TRUE, val |-> SubSeq(t, 1, at - 1) \o char \o rest.val]

\* the JSON string whose opening quote is just before j: up to the closing
\* quote, escapes decoded; a raw control character is a decode error
ScanJsonString(s, j) ==
    LET close == ClosingQuote(s, j, "\"")
        body == SubSeq(s, j, close - 1)
        decoded == DecodeJsonEscapes(body)
    IN  IF close = 0 THEN JsonFail
        ELSE IF \E k \in 1..Len(body) : Ch(body, k) \in {"\n", "\t", "\r"} THEN JsonFail
        ELSE IF ~decoded.ok THEN JsonFail
        ELSE [ok |-> TRUE, pos |-> close + 1, val |-> decoded.val]

RECURSIVE ParseJsonValue(_, _)
RECURSIVE ParseJsonMembers(_, _, _)
RECURSIVE ParseJsonElements(_, _, _)

\* the object whose opening brace is at i: [ok, pos, val]
ParseJsonObject(s, i) ==
    LET first == SkipSpaces(s, i + 1)
    IN  IF first > Len(s) THEN JsonFail
        ELSE IF Ch(s, first) = "}"
             THEN [ok |-> TRUE, pos |-> first + 1, val |-> [t |-> "obj", v |-> EmptyDict]]
        ELSE ParseJsonMembers(s, first, EmptyDict)

\* the array whose opening bracket is at i: [ok, pos, val]
ParseJsonArray(s, i) ==
    LET first == SkipSpaces(s, i + 1)
    IN  IF first > Len(s) THEN JsonFail
        ELSE IF Ch(s, first) = "]"
             THEN [ok |-> TRUE, pos |-> first + 1, val |-> [t |-> "arr", v |-> << >>]]
        ELSE ParseJsonElements(s, first, << >>)

\* the value at i: a string, an integer, a literal, an object or an array
ParseJsonValue(s, i) ==
    IF i > Len(s) THEN JsonFail
    ELSE IF Ch(s, i) = "\""
         THEN LET r == ScanJsonString(s, i + 1)
              IN  IF r.ok THEN [ok |-> TRUE, pos |-> r.pos, val |-> [t |-> "str", v |-> r.val]]
                  ELSE JsonFail
    ELSE IF IsDigit(Ch(s, i))
         THEN LET e == SkipDigits(s, i)
              IN  IF Ch(s, i) = "0" /\ e > i + 1 THEN JsonFail
                  ELSE [ok |-> TRUE, pos |-> e,
                        val |-> [t |-> "num", v |-> SubSeq(s, i, e - 1)]]
    ELSE IF \E w \in {"true", "false", "null"} : StartsAt(s, i, w)
         THEN LET w == CHOOSE w \in {"true", "false", "null"} : StartsAt(s, i, w)
              IN  [ok |-> TRUE, pos |-> i + Len(w), val |-> [t |-> "lit", v |-> w]]
    ELSE IF Ch(s, i) = "{" THEN ParseJsonObject(s, i)
    ELSE IF Ch(s, i) = "[" THEN ParseJsonArray(s, i)
    ELSE JsonFail

\* after the value v of the member key: a comma and the next member, or the
\* closing brace; a repeated key keeps its last value
MembersAfterValue(s, obj, key, v) ==
    IF ~v.ok THEN JsonFail
    ELSE LET next == SkipSpaces(s, v.pos)
         IN  IF next > Len(s) THEN JsonFail
             ELSE IF Ch(s, next) = ","
                  THEN ParseJsonMembers(s, SkipSpaces(s, next + 1), DictSet(obj, key, v.val))
             ELSE IF Ch(s, next) = "}"
                  THEN [ok |-> TRUE, pos |-> next + 1,
                        val |-> [t |-> "obj", v |-> DictSet(obj, key, v.val)]]
             ELSE JsonFail

\* key : value pairs from position i (at a key) to the closing brace; pos is
\* the position after the brace
ParseJsonMembers(s, i, obj) ==
    IF i > Len(s) \/ Ch(s, i) /= "\"" THEN JsonFail
    ELSE LET k == ScanJsonString(s, i + 1)
         IN  IF ~k.ok THEN JsonFail
             ELSE LET colon == SkipSpaces(s, k.pos)
                  IN  IF colon > Len(s) \/ Ch(s, colon) /= ":" THEN JsonFail
                      ELSE MembersAfterValue(s, obj, k.val,
                                             ParseJsonValue(s, SkipSpaces(s, colon + 1)))

\* after the element v: a comma and the next element, or the closing bracket
ElementsAfterValue(s, arr, v) ==
    IF ~v.ok THEN JsonFail
    ELSE LET next == SkipSpaces(s, v.pos)
         IN  IF next > Len(s) THEN JsonFail
             ELSE IF Ch(s, next) = ","
                  THEN ParseJsonElements(s, SkipSpaces(s, next + 1), Append(arr, v.val))
             ELSE IF Ch(s, next) = "]"
                  THEN [ok |-> TRUE, pos |-> next + 1,
                        val |-> [t |-> "arr", v |-> Append(arr, v.val)]]
             ELSE JsonFail

\* the elements of an array from position i to the closing bracket
ParseJsonElements(s, i, arr) == ElementsAfterValue(s, arr, ParseJsonValue(s, i))

\* the parsed value r when only blanks follow it: val is the value, obj its
\* members when it is an object
JsonAtEnd(text, r) ==
    IF r.ok /\ SkipSpaces(text, r.pos) > Len(text)
    THEN [ok |-> TRUE, val |-> r.val, obj |-> r.val.v]
    ELSE JsonFail

\* json.loads(text) of any JSON value: [ok |-> FALSE] stands for
\* JSONDecodeError, otherwise val is [t |-> "str" | "num" | "lit" | "obj" |
\* "arr", v |-> ...]
JsonLoadsValue(text) == JsonAtEnd(text, ParseJsonValue(text, SkipSpaces(text, 1)))

\* json.loads(text) of a text that starts with a brace, as the regular
\* expressions of the assemblers hand it over: the object, or JSONDecodeError
JsonLoads(text) ==
    LET open == SkipSpaces(text, 1)
    IN  IF open > Len(text) \/ Ch(text, open) /= "{" THEN JsonFail
        ELSE JsonLoadsValue(text)


\* ------------------------------------------------------------------------
\* compile(code, '<generated>', 'exec'): the Python grammar on the fragment
\* the model's texts are drawn from: one simple statement per line (import,
\* from-import, raise, pass, assignment, expression), def blocks of such
\* statements and return, no other blocks, no continuation lines, no adjacent
\* string literals.  Anything outside the fragment is a SyntaxError here.
\* ------------------------------------------------------------------------

IsIdentStart(c) == IsLower(c) \/ IsUpper(c) \/ c = "_"

AllWordChars(s) == \A k \in 1..Len(s) : IsWordChar(Ch(s, k))

\* Python: s.isidentifier() on ASCII text
IsIdentifier(s) == s /= "" /\ IsIdentStart(Ch(s, 1)) /\ AllWordChars(s)

AllDigits(s) == \A k \in 1..Len(s) : IsDigit(Ch(s, k))

\* the position after the quote that closes a string literal opened with q
\* just before j (0: none)
StringEnd(s, j, q) ==
    LET close == ClosingQuote(s, j, q) IN IF close = 0 THEN 0 ELSE close + 1

StatementKeywords ==
    {"import", "from", "def", "class", "return", "raise", "pass", "del", "assert",
     "global", "while", "for", "try", "with", "except", "finally", "elif", "yield",
     "lambda", "as", "break", "continue", "nonlocal"}
WordOperators == {"and", "or", "in", "is", "if", "else"}
StringPrefixes == {"f", "r", "b", "u", "F", "R", "B", "rb", "br", "fr", "rf"}
TwoCharOperators == {"==", "!=", "<=", ">=", "**", "//", "<<", ">>"}
OneCharOperators == {"+", "-", "*", "/", "%", "<", ">", "|", "&", "^", "."}
Closer(c) == IF c = "(" THEN ")" ELSE IF c = "[" THEN "]" ELSE "}"

RECURSIVE ExprOk(_, _, _, _, _)
\* One expression or assignment statement from position i.  operand: an
\* operand is expected next; stack: the brackets open so far; prev: the
\* kind of the token before ("start", "open", "close", "index", "comma",
\* "name", "lit", "op").
ExprOk(s, i0, operand, stack, prev) ==
    LET i == SkipBlanks(s, i0)
        c == Ch(s, i)
    IN  IF i > Len(s) \/ c = "#"
        THEN stack = "" /\ (~operand \/ prev = "comma") /\ prev /= "start"
        ELSE IF c \in {"'", "\""}
             THEN operand /\ StringEnd(s, i + 1, c) > 0
                  /\ ExprOk(s, StringEnd(s, i + 1, c), FALSE, stack, "lit")
        ELSE IF IsWordChar(c)
             THEN LET e == SkipWord(s, i)
                      w == SubSeq(s, i, e - 1)
                  IN  IF ~operand
                      THEN w \in WordOperators /\ ExprOk(s, e, TRUE, stack, "op")
                      ELSE IF w \in StringPrefixes /\ e <= Len(s) /\ Ch(s, e) \in {"'", "\""}
                           THEN StringEnd(s, e + 1, Ch(s, e)) > 0
                                /\ ExprOk(s, StringEnd(s, e + 1, Ch(s, e)), FALSE, stack, "lit")
                      ELSE IF w = "not" THEN ExprOk(s, e, TRUE, stack, "op")
                      ELSE IF IsDigit(c) THEN AllDigits(w) /\ ExprOk(s, e, FALSE, stack, "lit")
                      ELSE w \notin StatementKeywords /\ w \notin WordOperators
                           /\ ExprOk(s, e, FALSE, stack, "name")
        ELSE IF c \in {"(", "[", "{"}
             THEN (c /= "{" \/ operand) /\ ExprOk(s, i + 1, TRUE, c \o stack, "open")
        ELSE IF c \in {")", "]", "}"}
             THEN stack /= "" /\ Closer(Ch(stack, 1)) = c
                  /\ (~operand \/ prev \in {"open", "comma"})
                  /\ ExprOk(s, i + 1, FALSE, Tail(stack), IF c = "]" THEN "index" ELSE "close")
        ELSE IF c = ","
             THEN ~operand /\ ExprOk(s, i + 1, TRUE, stack, "comma")
        ELSE IF i < Len(s) /\ SubSeq(s, i, i + 1) \in TwoCharOperators
             THEN ~operand /\ ExprOk(s, i + 2, TRUE, stack, "op")
        ELSE IF c = "="
             THEN ~operand /\ (stack /= "" \/ prev \in {"name", "index"})
                  /\ ExprOk(s, i + 1, TRUE, stack, "op")
        ELSE IF c = ":"
             THEN ~operand /\ stack /= "" /\ ExprOk(s, i + 1, TRUE, stack, "op")
        ELSE IF c \in OneCharOperators
             THEN (~operand \/ c \in {"+", "-"}) /\ ExprOk(s, i + 1, TRUE, stack, "op")
        ELSE FALSE

\* an identifier that is no keyword
IsName(n) ==
    IsIdentifier(n)
    /\ n \notin StatementKeywords \cup WordOperators \cup {"not", "None", "True", "False"}

RECURSIVE AllNames(_, _)
\* every comma-separated part is a name; dotted: module paths are allowed
AllNames(parts, dotted) ==
    IF Len(parts) = 0 THEN TRUE
    ELSE LET n == Strip(parts[1])
             ok == IF dotted
                   THEN \A k \in 1..Len(Split(n, ".")) : IsName(Split(n, ".")[k])
                   ELSE IsName(n)
         IN  ok /\ AllNames(Tail(parts), dotted)

\* one simple statement, given without the blanks around it
StatementCompiles(t) ==
    IF StartsWith(t, "from ")
    THEN LET at == FindFrom(t, " import ", 1)
         IN  at > 0
             /\ AllNames(<< SubSeq(t, 6, at - 1) >>, TRUE)
             /\ AllNames(Split(SubSeq(t, at + 8, Len(t)), ","), FALSE)
    ELSE IF StartsWith(t, "import ")
         THEN AllNames(Split(SubSeq(t, 8, Len(t)), ","), TRUE)
    ELSE IF t = "pass" \/ t = "raise" THEN TRUE
    ELSE IF StartsWith(t, "raise ")
         THEN ExprOk(t, 7, TRUE, "", "start")
    ELSE ExprOk(t, 1, TRUE, "", "start")

IsBlankOrComment(line) == Strip(line) = "" \/ StartsWith(Strip(line), "#")

\* the width of the blanks a line starts with
Indent(line) == SkipBlanks(line, 1) - 1

\* def name(a, b): with plain parameter names
IsDefHeader(line) ==
    LET t == RStrip(line)
        open == FindFrom(t, "(", 1)
        params == Strip(SubSeq(t, open + 1, Len(t) - 2))
    IN  /\ StartsWith(t, "def ")
        /\ open > 0
        /\ Len(t) >= open + 2
        /\ SubSeq(t, Len(t) - 1, Len(t)) = "):"
        /\ IsName(Strip(SubSeq(t, 5, open - 1)))
        /\ (params = "" \/ AllNames(Split(params, ","), FALSE))

\* line k at the top level of the module
LineCompiles(lines, k) ==
    IF StartsWith(lines[k], "def ")
    THEN /\ IsDefHeader(lines[k])
         /\ \E b \in (k + 1)..Len(lines) :
               /\ ~IsBlankOrComment(lines[b])
               /\ Indent(lines[b]) > 0
               /\ \A j \in (k + 1)..(b - 1) : IsBlankOrComment(lines[j])
    ELSE StatementCompiles(Strip(lines[k]))

\* line k, indented: a statement of the body of the def above it, at the
\* indentation of the body's first statement
BodyLineCompiles(lines, k) ==
    LET heads == { h \in 1..(k - 1) :
                     /\ StartsWith(lines[h], "def ")
                     /\ \A j \in (h + 1)..(k - 1) :
                           IsBlankOrComment(lines[j]) \/ Indent(lines[j]) > 0 }
        t == Strip(lines[k])
    IN  /\ heads /= {}
        /\ LET first == Min({ j \in (Max(heads) + 1)..k : ~IsBlankOrComment(lines[j]) })
           IN  Indent(lines[k]) = Indent(lines[first])
        /\ \/ t = "return"
           \/ StartsWith(t, "return ") /\ ExprOk(t, 8, TRUE, "", "start")
           \/ StatementCompiles(t)

\* compile succeeds: no line is a SyntaxError
Compiles(code) ==
    LET lines == Split(code, "\n")
    IN  \A k \in 1..Len(lines) :
            IF IsBlankOrComment(lines[k]) THEN TRUE
            ELSE IF Indent(lines[k]) > 0 THEN BodyLineCompiles(lines, k)
            ELSE LineCompiles(lines, k)


\* ------------------------------------------------------------------------
\* Constrained assembler: generate_glue_code
\* ------------------------------------------------------------------------

Sentinels == << "result", "output", "value", "total" >>
ComparisonOps == {"==", "!=", "<=", ">="}

\* UseBeforeDefine as it would be if no left-hand side were ever added to
\* defined_vars
UseBeforeDefineNoDefs(lines, defined_vars) ==
    \E n \in 1..Len(lines) :
        LET line == Strip(lines[n])
            at == FindFrom(line, "=", 1)
            rhs == Strip(SubSeq(line, at + 1, Len(line)))
        IN  /\ at > 0 /\ ~StartsWith(line, "#") /\ ~StartsWith(line, "def ")
            /\ ~\E op \in ComparisonOps : Contains(line, op)
            /\ \E k \in 1..Len(Sentinels) : Contains(rhs, Sentinels[k])

RECURSIVE UseBeforeDefine(_, _)
\* the line scan of the semantic validation: TRUE when some assignment line
\* has a sentinel on its right-hand side that no earlier line defined
UseBeforeDefine(lines, defined_vars) ==
    IF Len(lines) = 0 THEN FALSE
    ELSE LET line == Strip(lines[1])
             at == FindFrom(line, "=", 1)
             lhs == Strip(SubSeq(line, 1, at - 1))
             rhs == Strip(SubSeq(line, at + 1, Len(line)))
         IN  IF at > 0 /\ ~StartsWith(line, "#") /\ ~StartsWith(line, "def ")
             THEN IF \E op \in ComparisonOps : Contains(line, op)
                  THEN UseBeforeDefine(Tail(lines), defined_vars)
                  ELSE IF \E k \in 1..Len(Sentinels) :
                             Contains(rhs, Sentinels[k]) /\ Sentinels[k] \notin defined_vars
                       THEN TRUE
                       ELSE UseBeforeDefine(Tail(lines),
                                IF lhs /= "" /\ IsIdentifier(lhs)
                                THEN defined_vars \cup {lhs} ELSE defined_vars)
             ELSE UseBeforeDefine(Tail(lines), defined_vars)

RECURSIVE UsesRetrieved(_, _)
\* any(fn in code for fn in func_names), fn = c.get('func_name'): "yes",
\* "no", or "raise" when a chunk without func_name is reached (None in code)
UsesRetrieved(chunks, code) ==
    IF Len(chunks) = 0 THEN "no"
    ELSE IF "func_name" \notin DOMAIN chunks[1] THEN "raise"
    ELSE IF Contains(code, chunks[1].func_name) THEN "yes"
    ELSE UsesRetrieved(Tail(chunks), code)

\* HasPrint as it would be if any call counted as output
HasAnyCall(code) == Contains(code, "(")

HasPrint(code) == Contains(code, "print(")
HasResultAssignment(code) == Contains(code, "result =") \/ Contains(code, "result=")

\* the import block generate_glue_code requires (names are not deduplicated)
GlueImportBlock(chunks) == ImportBlock(GroupImports(chunks, EmptyDict, FALSE))

\* f"{c.get(k)}": the text of a missing key is None
Fmt(chunk, k) == Get(chunk, k, "None")

ContextStr(chunks) ==
    Join([i \in 1..Len(chunks) |->
             "# " \o Fmt(chunks[i], "func_name") \o " from " \o Fmt(chunks[i], "filename")
             \o ":\n" \o Fmt(chunks[i], "source")],
         "\n\n")

\* error_context is None or the stderr text; an empty text counts as none
ErrorSection(error_context) ==
    IF error_context.some /\ error_context.val /= ""
    THEN "\nPREVIOUS ATTEMPT FAILED with this error:\n" \o Fence \o "\n"
         \o error_context.val \o "\n" \o Fence \o "\nFIX THE ERROR and generate correct code.\n"
    ELSE ""

BuildPrompt(chunks, query, error_context) ==
    "<|im_start|>system\nYou are a CODE ASSEMBLER, not a code generator. You MUST:\n"
    \o "1. Use ONLY the functions provided below - no new implementations\n"
    \o "2. Output valid JSON matching this exact schema: "
    \o "{\"reasoning\": \"...\", \"code\": \"...\", \"filename\": \"output.py\"}\n"
    \o "3. The \"code\" field must start with these exact imports:\n"
    \o GlueImportBlock(chunks)
    \o "\n\nAvailable functions (USE THESE ONLY):\n"
    \o ContextStr(chunks)
    \o "\n<|im_end|>\n<|im_start|>user\nAssemble code to: " \o query
    \o "\nRemember: Just CALL the provided functions. Do not implement new logic.\n"
    \o ErrorSection(error_context)
    \o "<|im_end|>\n<|im_start|>assistant\n"

InsufficientDataResult ==
    [reasoning |-> "ERROR: Set intersection returned empty. No matching code chunks.",
     code |-> "raise RuntimeError('Insufficient data: No matching chunks found')",
     filename |-> "output.py"]

\* the outcome of one call: the result, how it ended ("error", "ok",
\* "fallback"), the step that decided it, and the model and deterministic
\* assembler calls made
Outcome(result, outcome, via, model_calls, det_calls) ==
    [result |-> result, outcome |-> outcome, via |-> via,
     model_calls |-> model_calls, det_calls |-> det_calls]

\* Fallback as it would be if a failure were answered with the error result
FallbackError(chunks, query, via, model_calls) ==
    Outcome(InsufficientDataResult, "error", via, model_calls, 0)

Fallback(chunks, query, via, model_calls) ==
    Outcome(BuildDeterministicCode(chunks, query), "fallback", via, model_calls, 1)

\* ValidateResponse as it would be if the completeness validator ran before
\* the syntax and use-before-define validators
ValidateResponseCompletenessFirst(chunks, query, data) ==
    LET code_value == IF DictHas(data, "code") THEN DictGet(data, "code")
                      ELSE [t |-> "str", v |-> ""]
    IN  IF code_value.t /= "str" THEN Fallback(chunks, query, "clean_raised", 1)
        ELSE
        LET import_block == GlueImportBlock(chunks)
            cleaned == CleanCode(code_value.v)
            code == IF ~Contains(cleaned, import_block)
                    THEN import_block \o "\n\n" \o cleaned ELSE cleaned
            uses == UsesRetrieved(chunks, code)
        IN  IF uses = "raise" THEN Fallback(chunks, query, "usage_raised", 1)
            ELSE IF uses = "no" THEN Fallback(chunks, query, "usage", 1)
            ELSE IF ~HasPrint(code) /\ ~HasResultAssignment(code)
                 THEN Fallback(chunks, query, "completeness", 1)
            ELSE IF ~Compiles(code) THEN Fallback(chunks, query, "syntax", 1)
            ELSE IF UseBeforeDefine(Split(code, "\n"), {})
                 THEN Fallback(chunks, query, "use_before_define", 1)
            ELSE Outcome(
                   [reasoning |-> IF DictHas(data, "reasoning")
                                  THEN DictGet(data, "reasoning").v ELSE "LLM assembly",
                    code |-> IF HasResultAssignment(code) /\ ~HasPrint(code)
                             THEN RStrip(code) \o "\n" \o PrintResultLine ELSE code,
                    filename |-> "output.py"],
                   "ok", "validated", 1, 0)

\* the validator chain on the decoded object (lines 216-270)
ValidateResponse(chunks, query, data) ==
    LET code_value == IF DictHas(data, "code") THEN DictGet(data, "code")
                      ELSE [t |-> "str", v |-> ""]
    IN  IF code_value.t /= "str" THEN Fallback(chunks, query, "clean_raised", 1)
        ELSE
        LET import_block == GlueImportBlock(chunks)
            cleaned == CleanCode(code_value.v)
            code == IF ~Contains(cleaned, import_block)
                    THEN import_block \o "\n\n" \o cleaned ELSE cleaned
            uses == UsesRetrieved(chunks, code)
        IN  IF uses = "raise" THEN Fallback(chunks, query, "usage_raised", 1)
            ELSE IF uses = "no" THEN Fallback(chunks, query, "usage", 1)
            ELSE IF ~Compiles(code) THEN Fallback(chunks, query, "syntax", 1)
            ELSE IF UseBeforeDefine(Split(code, "\n"), {})
                 THEN Fallback(chunks, query, "use_before_define", 1)
            ELSE IF ~HasPrint(code) /\ ~HasResultAssignment(code)
                 THEN Fallback(chunks, query, "completeness", 1)
            ELSE Outcome(
                   [reasoning |-> IF DictHas(data, "reasoning")
                                  THEN DictGet(data, "reasoning").v ELSE "LLM assembly",
                    code |-> IF HasResultAssignment(code) /\ ~HasPrint(code)
                             THEN RStrip(code) \o "\n" \o PrintResultLine ELSE code,
                    filename |-> "output.py"],
                   "ok", "validated", 1, 0)

\* generate_glue_code(chunks, query, error_context) with the model as the
\* environment gives it: loaded or not, and for this call either an
\* exception or a response text.  error_context reaches the prompt only
\* (BuildPrompt); what the model answers is the environment's choice.
GenerateGlueCode(chunks, query, error_context, model) ==
    IF Len(chunks) = 0 THEN Outcome(InsufficientDataResult, "error", "no_chunks", 0, 0)
    ELSE IF ~model.loaded THEN Fallback(chunks, query, "no_model", 0)
         ELSE IF model.raises THEN Fallback(chunks, query, "generate_raised", 1)
         ELSE LET match == SearchJson(model.response, 1)
              IN  IF ~match.some THEN Fallback(chunks, query, "no_match", 1)
                  ELSE LET loaded == JsonLoads(match.val)
                       IN  IF ~loaded.ok THEN Fallback(chunks, query, "json_error", 1)
                           ELSE ValidateResponse(chunks, query, loaded.obj)


\* ------------------------------------------------------------------------
\* State
\* ------------------------------------------------------------------------

VARIABLES
    idx_parser,     \* Indexer: the tree-sitter parser was initialised
    idx_index,      \* Indexer.index
    idx_current,    \* Indexer.current_file (None before the first file)
    idx_calls,      \* the last two parse_file calls: [file, raised], oldest first
    idx_prev,       \* Indexer.index as it was before the last parse_file call
    disk,           \* the index file inverted_index.json
    ret_index,      \* IntersectionEngine.index
    ret_missing,    \* the index file was missing at the last _load_index
    ret_last,       \* the last search: [done, query, index, result]
    br_chunks,      \* assembler_bridge: the chunks of the request
    br_query,       \* assembler_bridge: the query of the request
    br_error,       \* assembler_bridge: the error_context of the request
    br_loaded,      \* assembler_bridge: _model is not None
    br_out,         \* the generate_glue_code call made: [done, model, out]
    br_det,         \* the direct build_deterministic_code call made: [done, result]
    main_pc,        \* main(): "start", "indexing", "prompt", "confirm_save", "confirm_run", "exit"
    main_loaded,    \* Assembler.model is not None
    main_walk,      \* the files os.walk(".") yields, in order
    main_turn,      \* the REPL turn in progress: query, results, output_obj, verification
    wire_stdin,     \* assembler_bridge run as a script: the text on stdin
    wire_run        \* the run of the script: [done, model, run |-> [stdout, crashed]]

vars == << idx_parser, idx_index, idx_current, idx_calls, idx_prev, disk,
           ret_index, ret_missing, ret_last,
           br_chunks, br_query, br_error, br_loaded, br_out, br_det,
           main_pc, main_loaded, main_walk, main_turn, wire_stdin, wire_run >>

idx_vars == << idx_parser, idx_index, idx_current, idx_calls, idx_prev >>
ret_vars == << ret_index, ret_missing, ret_last >>
br_vars == << br_chunks, br_query, br_error, br_loaded, br_out, br_det >>
main_vars == << main_pc, main_loaded, main_walk, main_turn >>
wire_vars == << wire_stdin, wire_run >>

NoSearch == [done |-> FALSE, query |-> "", index |-> EmptyDict, result |-> None]
NoModel == [loaded |-> FALSE, raises |-> FALSE, response |-> ""]
NoCall == [done |-> FALSE, model |-> NoModel,
           out |-> Outcome(InsufficientDataResult, "error", "no_chunks", 0, 0)]
NoBuild == [done |-> FALSE, result |-> InsufficientDataResult]
NoRun == [done |-> FALSE, model |-> NoModel, run |-> [stdout |-> << >>, crashed |-> FALSE]]
NoTurn == [query |-> "", results |-> None, output |-> InsufficientDataResult,
           model_calls |-> 0, assembler_calls |-> << >>, written |-> None,
           check |-> None, stderr |-> None, verified |-> FALSE, ran |-> FALSE]

\* each component as it is before it is constructed or used
IndexerIdle ==
    /\ idx_index = EmptyDict
    /\ idx_current = None
    /\ idx_calls = << >>
    /\ idx_prev = EmptyDict
RetrieverIdle ==
    /\ ret_index = EmptyDict
    /\ ret_missing = TRUE
    /\ ret_last = NoSearch
BridgeIdle ==
    /\ br_chunks = << >>
    /\ br_query = ""
    /\ br_error = None
    /\ br_loaded = FALSE
    /\ br_out = NoCall
    /\ br_det = NoBuild
MainIdle ==
    /\ main_pc = "start"
    /\ main_loaded = FALSE
    /\ main_walk = << >>
    /\ main_turn = NoTurn
WireIdle ==
    /\ wire_stdin = ""
    /\ wire_run = NoRun

\* ------------------------------------------------------------------------
\* Indexer operations
\* ------------------------------------------------------------------------

\* Indexer.parse_file(Workspace[f].path)
ParseFile(f) ==
    LET r == ParseFileResult(idx_index, idx_current, idx_parser, Workspace[f])
    IN  /\ idx_index' = r.index
        /\ idx_current' = r.current_file
        /\ idx_prev' = idx_index
        /\ idx_calls' = (IF Len(idx_calls) = 2 THEN Tail(idx_calls) ELSE idx_calls)
                        \o << [file |-> f, raised |-> r.raised] >>
        /\ UNCHANGED << idx_parser, disk, ret_vars, br_vars, main_vars, wire_vars >>

\* Indexer.export_index()
Export ==
    /\ disk' = ExportIndex(idx_index)
    /\ UNCHANGED << idx_vars, ret_vars, br_vars, main_vars, wire_vars >>

\* Indexer(): the parser is initialised or, when the grammar fails to load, absent
InitIndexer ==
    /\ idx_parser \in BOOLEAN
    /\ IndexerIdle
    /\ disk = MissingFile
    /\ RetrieverIdle
    /\ BridgeIdle
    /\ MainIdle
    /\ WireIdle

NextIndexer ==
    \/ \E f \in 1..Len(Workspace) : ParseFile(f)
    \/ Export

SpecIndexer == InitIndexer /\ [][NextIndexer]_vars

\* ------------------------------------------------------------------------
\* Retriever operations
\* ------------------------------------------------------------------------

\* the index files the retriever may find: none, an empty one, exports of the
\* indexer, the legacy form, and structured entries that lack fields
UtilsIndex == ParseFileResult(EmptyDict, None, TRUE, UtilsFile).index
UsersIndex == ParseFileResult(UtilsIndex, None, TRUE, UsersFile).index
LegacyIndex ==
    << [key |-> "create_user", val |-> Legacy("def create_user(name): pass")],
       [key |-> "delete_user", val |-> Legacy("def delete_user(id): pass")] >>
SparseIndex ==
    << [key |-> "foo",
        val |-> Structured([source |-> "def foo():\n    return 'foo'",
                            filename |-> "utils", signature |-> [params |-> << >>]])],
       [key |-> "Invoke_Helper", val |-> Structured([filename |-> "helpers"])],
       [key |-> "old_foo", val |-> Legacy("def old_foo(): return FOO_FUNCTION")] >>
\* an index holding the single function foo of utils
FooIndex ==
    << [key |-> "foo",
        val |-> Structured([source |-> "def foo():\n    return 'foo'",
                            filename |-> "utils", signature |-> [params |-> << >>]])] >>
StoredIndexes ==
    { MissingFile, ExportIndex(EmptyDict), ExportIndex(UtilsIndex), ExportIndex(UsersIndex),
      ExportIndex(LegacyIndex), ExportIndex(SparseIndex), ExportIndex(FooIndex) }

Queries ==
    { "", "run foo", "invoke foo function", "Create_User NAME", "create user",
      "database migration", "RETURN", "delete_user pass", "call foo, then bar!" }

\* IntersectionEngine._load_index()
RetLoad ==
    /\ ret_index' = LoadIndex(disk)
    /\ ret_missing' = ~disk.exists
    /\ UNCHANGED << idx_vars, disk, ret_last, br_vars, main_vars, wire_vars >>

\* IntersectionEngine.search(q)
RetSearch(q) ==
    /\ ret_last' = [done |-> TRUE, query |-> q, index |-> ret_index,
                    result |-> Search(ret_index, q)]
    /\ UNCHANGED << idx_vars, disk, ret_index, ret_missing, br_vars, main_vars, wire_vars >>

\* the index file is rewritten or removed between two loads
DiskReplace(file) ==
    /\ disk' = file
    /\ UNCHANGED << idx_vars, ret_vars, br_vars, main_vars, wire_vars >>

\* IntersectionEngine(index_path): the constructor loads the index
InitRetriever ==
    /\ idx_parser = TRUE
    /\ IndexerIdle
    /\ disk \in StoredIndexes
    /\ ret_index = LoadIndex(disk)
    /\ ret_missing = ~disk.exists
    /\ ret_last = NoSearch
    /\ BridgeIdle
    /\ MainIdle
    /\ WireIdle

NextRetriever ==
    \/ RetLoad
    \/ \E q \in Queries : RetSearch(q)
    \/ \E file \in StoredIndexes : DiskReplace(file)

SpecRetriever == InitRetriever /\ [][NextRetriever]_vars

\* ------------------------------------------------------------------------
\* Properties of the retriever
\* ------------------------------------------------------------------------

\* the salient tokens of a query, stated on the text: the maximal runs of
\* word characters that are longer than three characters
SalientTokens(q) ==
    { SubSeq(q, a, b) : <<a, b>> \in
        { ab \in (1..Len(q)) \X (1..Len(q)) :
            /\ ab[2] - ab[1] + 1 > 3
            /\ \A k \in ab[1]..ab[2] : IsWordChar(Ch(q, k))
            /\ (ab[1] = 1 \/ ~IsWordChar(Ch(q, ab[1] - 1)))
            /\ (ab[2] = Len(q) \/ ~IsWordChar(Ch(q, ab[2] + 1))) } }

\* t occurs in text when letter case is ignored
OccursIgnoringCase(t, text) ==
    \E i \in 1..(Len(text) - Len(t) + 1) :
        \A k \in 1..Len(t) : LowerOf(Ch(t, k)) = LowerOf(Ch(text, i + k - 1))

\* every salient token of q occurs in the entry's name or in its source
EntryMatches(entry, q) ==
    \A t \in SalientTokens(q) :
        OccursIgnoringCase(t, entry.key) \/ OccursIgnoringCase(t, EntrySource(entry.val))

\* the names of the chunks a search result holds (none for null)
ReturnedNames(result) ==
    IF result.some THEN { result.val[i].func_name : i \in 1..Len(result.val) } ELSE {}

\* C1: retriever strictness.  After a search whose query has a salient
\* token, the chunks returned are exactly the index entries in which every
\* salient token occurs, ignoring case, in the name or in the source; each
\* returned chunk carries the source of its entry.
C1_RetrieverStrictness ==
    (ret_last.done /\ SalientTokens(ret_last.query) /= {}) =>
        /\ \A i \in 1..Len(ret_last.index) :
              (ret_last.index[i].key \in ReturnedNames(ret_last.result))
                  <=> EntryMatches(ret_last.index[i], ret_last.query)
        /\ ret_last.result.some =>
              \A j \in 1..Len(ret_last.result.val) :
                  /\ DictHas(ret_last.index, ret_last.result.val[j].func_name)
                  /\ ret_last.result.val[j].source
                        = EntrySource(DictGet(ret_last.index, ret_last.result.val[j].func_name))

\* a search that returned some entries and rejected others, one of them for
\* a token found only by ignoring case
C1_Witness ==
    /\ ret_last.done
    /\ ret_last.query = "Create_User NAME"
    /\ ret_last.result.some
    /\ Len(ret_last.result.val) < Len(ret_last.index)

\* C2: search returns null exactly when the query has no salient token or
\* no index entry matches all of them, and a non-empty list otherwise; after
\* a load that found no index file the index is empty and every search
\* returns null.
C2_NullExactlyWhenNothingFound ==
    /\ ret_last.done =>
          /\ ~ret_last.result.some <=>
                \/ SalientTokens(ret_last.query) = {}
                \/ \A i \in 1..Len(ret_last.index) :
                      ~EntryMatches(ret_last.index[i], ret_last.query)
          /\ ret_last.result.some => Len(ret_last.result.val) > 0
    /\ ret_missing => ret_index = EmptyDict
    /\ (ret_last.done /\ ret_last.index = EmptyDict) => ~ret_last.result.some

\* a search with salient tokens on the index of a missing file
C2_Witness ==
    /\ ret_missing
    /\ ret_last.done
    /\ ret_last.index = ret_index
    /\ ret_last.query = "invoke foo function"
    /\ ~ret_last.result.some

\* C14: with an index holding only foo (source "def foo():\n    return 'foo'",
\* filename utils, no params), search("invoke foo function") returns a list
\* of exactly one chunk, the chunk for foo
C14_SingleFunctionMatch ==
    (ret_last.done /\ ret_last.index = FooIndex /\ ret_last.query = "invoke foo function") =>
        /\ ret_last.result.some
        /\ Len(ret_last.result.val) = 1
        /\ ret_last.result.val[1].func_name = "foo"

\* ------------------------------------------------------------------------
\* Properties of the indexer
\* ------------------------------------------------------------------------

\* C10: indexer idempotence.  When parse_file has been called twice in
\* succession on the same file, the index after the second call equals the
\* index after the first (keys, their order, and every chunk).
C10_IndexerIdempotence ==
    (Len(idx_calls) = 2 /\ idx_calls[1].file = idx_calls[2].file) => idx_index = idx_prev

\* the same file parsed twice on an index that another file filled before,
\* with a name the two files share
C10_Witness ==
    /\ Len(idx_calls) = 2
    /\ idx_calls[1].file = idx_calls[2].file
    /\ ~idx_calls[2].raised
    /\ Workspace[idx_calls[2].file].path = "./src/users.py"
    /\ DictHas(idx_index, "bar")
    /\ DictGet(idx_index, "foo").d.filename = "users"

\* C19: every chunk parse_file stores has signature.params equal to the
\* definition's parameter names in declaration order with a leading self
\* removed; no stored chunk has self as its first parameter.
C19_StoredParamsWithoutSelf ==
    \A i \in 1..Len(idx_index) :
        LET params == idx_index[i].val.d.signature.params
        IN  Len(params) = 0 \/ params[1] /= "self"

\* ------------------------------------------------------------------------
\* Constrained assembler operations
\* ------------------------------------------------------------------------

\* the longest chunk list a request carries
MaxChunks == 2

OutputIndex == ParseFileResult(EmptyDict, None, TRUE, OutputFile).index

\* chunks as search builds them from index entries: foo and create_user as
\* ./utils.py, ./src/users.py and ./output.py define them
ChunkCatalogue ==
    { c \in Range(FinalResults(UtilsIndex, {})) \cup Range(FinalResults(UsersIndex, {}))
            \cup Range(FinalResults(OutputIndex, {})) :
        c.func_name \in {"foo", "create_user"} }

ChunkLists == UNION { [1..n -> ChunkCatalogue] : n \in 0..MaxChunks }

BridgeQueries == { "run foo", "add 5 and 7" }

ErrorContexts == { None, Some("NameError: name 'result' is not defined") }

\* what the model may answer
Responses ==
    {
       \* the import block of [foo from utils], a bound result and a print
       "Here is the JSON: {\"reasoning\": \"call the functions\", \"code\": \"from utils import foo\\nresult = foo(5)\\nprint(result)\", \"filename\": \"output.py\"}",
       \* a bound result and no print
       "{\"reasoning\": \"call the functions\", \"code\": \"result = foo(1)\"}",
       \* no JSON object
       "I cannot assemble that.",
       \* braces around text that is no JSON
       "{\"reasoning\": \"r\", \"code\": \"foo(1)\" oops}",
       \* code that does not compile
       "{\"reasoning\": \"call the functions\", \"code\": \"print(foo(1)\", \"filename\": \"output.py\"}",
       \* a sentinel read before any line defines it
       "{\"reasoning\": \"call the functions\", \"code\": \"total = value + 1\\nprint(total)\", \"filename\": \"output.py\"}",
       \* a call whose result is neither bound nor printed
       "{\"reasoning\": \"call the functions\", \"code\": \"foo(1)\", \"filename\": \"output.py\"}",
       \* an import from output in the model's text
       "{\"reasoning\": \"call the functions\", \"code\": \"from output import foo\\nprint(foo(2))\", \"filename\": \"output.py\"}",
       \* a code field that is a number
       "{\"reasoning\": \"r\", \"code\": 5}",
       \* code that names none of the retrieved functions
       "{\"reasoning\": \"nothing to call\", \"code\": \"print(42)\", \"filename\": \"output.py\"}",
       \* a sentinel read on a line after the line that defines it
       "{\"reasoning\": \"chain the calls\", \"code\": \"result = foo(7)\\nresult = foo(result)\", \"filename\": \"output.py\"}",
       \* code that fails the syntax, use-before-define and completeness validators
       "{\"reasoning\": \"call the functions\", \"code\": \"total = foo(value\", \"filename\": \"output.py\"}",
       \* code that fails the use-before-define and completeness validators
       "{\"reasoning\": \"call the functions\", \"code\": \"value = foo(value)\", \"filename\": \"output.py\"}",
       \* code inside a markdown fence
       "{\"reasoning\": \"call the functions\", \"code\": \"~~~python\\nprint(create_user(3, 4))\\n~~~\", \"filename\": \"output.py\"}"
    }

\* the model for one call: not loaded, raising, or answering
Models ==
    { NoModel, [loaded |-> TRUE, raises |-> TRUE, response |-> ""] }
    \cup { [loaded |-> TRUE, raises |-> FALSE, response |-> r] : r \in Responses }

\* generate_glue_code(br_chunks, br_query, br_error)
Generate(m) ==
    /\ ~br_out.done
    /\ ~br_det.done
    /\ m.loaded = br_loaded
    /\ br_out' = [done |-> TRUE, model |-> m,
                  out |-> GenerateGlueCode(br_chunks, br_query, br_error, m)]
    /\ UNCHANGED << idx_vars, disk, ret_vars, br_chunks, br_query, br_error, br_loaded, br_det,
                    main_vars, wire_vars >>

\* build_deterministic_code(br_chunks, br_query), called directly
BuildDeterministic ==
    /\ ~br_det.done
    /\ ~br_out.done
    /\ br_det' = [done |-> TRUE, result |-> BuildDeterministicCode(br_chunks, br_query)]
    /\ UNCHANGED << idx_vars, disk, ret_vars, br_chunks, br_query, br_error, br_loaded, br_out,
                    main_vars, wire_vars >>

\* a request and the model as load_model() left it; one call is made on it
InitBridge ==
    /\ idx_parser = TRUE
    /\ IndexerIdle
    /\ disk = MissingFile
    /\ RetrieverIdle
    /\ br_chunks \in ChunkLists
    /\ br_query \in BridgeQueries
    /\ br_error \in ErrorContexts
    /\ br_loaded \in BOOLEAN
    /\ br_out = NoCall
    /\ br_det = NoBuild
    /\ MainIdle
    /\ WireIdle

NextBridge ==
    \/ \E m \in Models : Generate(m)
    \/ BuildDeterministic

SpecBridge == InitBridge /\ [][NextBridge]_vars

\* ------------------------------------------------------------------------
\* Properties of the constrained assembler
\* ------------------------------------------------------------------------

\* the code of the generate_glue_code call made
ReturnedCode == br_out.out.result.code

\* the lines of a text
LinesOf(code) == Split(code, "\n")

\* C3: assembler grounding.  For a non-empty chunk list, the code
\* generate_glue_code returned either (a) contains a retrieved func_name,
\* contains the required import block, compiles, reads no sentinel before a
\* line defines it, and prints or binds result, or (b) is the code
\* build_deterministic_code gives for the same chunks and query.
C3_AssemblerGrounding ==
    (br_out.done /\ Len(br_chunks) > 0) =>
        \/ /\ \E i \in 1..Len(br_chunks) : Contains(ReturnedCode, br_chunks[i].func_name)
           /\ Contains(ReturnedCode, GlueImportBlock(br_chunks))
           /\ Compiles(ReturnedCode)
           /\ ~UseBeforeDefine(LinesOf(ReturnedCode), {})
           /\ (Contains(ReturnedCode, "print(") \/ Contains(ReturnedCode, "result =")
               \/ Contains(ReturnedCode, "result="))
        \/ ReturnedCode = BuildDeterministicCode(br_chunks, br_query).code

\* a model answer accepted for two chunks, returned with the print of the
\* result appended, and different from the deterministic code
C3_Witness ==
    /\ br_out.done
    /\ Len(br_chunks) = 2
    /\ br_out.out.via = "validated"
    /\ Contains(ReturnedCode, "result = foo(1)\n" \o PrintResultLine)
    /\ ReturnedCode /= BuildDeterministicCode(br_chunks, br_query).code

\* some line of the code is a raise statement
RaisesError(code) ==
    \E k \in 1..Len(LinesOf(code)) : StartsWith(LinesOf(code)[k], "raise ")

\* C4: completeness.  Every code generate_glue_code returned contains a
\* print call or is a statement that raises an error.
C4_Completeness ==
    br_out.done => (Contains(ReturnedCode, "print(") \/ RaisesError(ReturnedCode))

\* some line of the code imports from the module output
ImportsFromOutput(code) ==
    \E k \in 1..Len(LinesOf(code)) :
        LET words == RunsFrom(LinesOf(code)[k], "w", 1)
        IN  Len(words) >= 3 /\ words[1] = "from" /\ words[2] = "output" /\ words[3] = "import"
            /\ StartsWith(Strip(LinesOf(code)[k]), "from ")

\* C5: no self-import.  The code generate_glue_code returned, whose filename
\* is output.py, has no import from the module output.
C5_NoSelfImport ==
    br_out.done => (br_out.out.result.filename = "output.py" /\ ~ImportsFromOutput(ReturnedCode))

\* the answer holds no region that parses as a JSON object with reasoning
\* and code
NoJsonObject(response) ==
    \/ ~SearchJson(response, 1).some
    \/ ~JsonLoads(SearchJson(response, 1).val).ok

\* C6: untrusted-model fallback.  For a non-empty chunk list, when the model
\* is not loaded, the model call raises, or the answer holds no JSON object
\* with reasoning and code, generate_glue_code returns the result of
\* build_deterministic_code for the same chunks and query, with or without
\* an error_context.
C6_UntrustedModelFallback ==
    (/\ br_out.done
     /\ Len(br_chunks) > 0
     /\ (~br_out.model.loaded \/ br_out.model.raises \/ NoJsonObject(br_out.model.response)))
    => /\ br_out.out.outcome = "fallback"
       /\ br_out.out.result = BuildDeterministicCode(br_chunks, br_query)

\* an answer whose braces hold no JSON, for two chunks and with an
\* error_context supplied
C6_Witness ==
    /\ br_out.done
    /\ Len(br_chunks) = 2
    /\ br_error.some
    /\ br_out.model.loaded
    /\ ~br_out.model.raises
    /\ SearchJson(br_out.model.response, 1).some
    /\ br_out.out.via = "json_error"

\* the code of the direct build_deterministic_code call made
DetCode == br_det.result.code

\* a line that is no import, no comment, not blank and not the final print
IsCallStatement(line) ==
    line /= "" /\ ~StartsWith(line, "#") /\ ~StartsWith(line, "from ") /\ line /= PrintResultLine

IsImportLine(line) == StartsWith(line, "from ")

\* the name a call statement invokes: the text before the first parenthesis,
\* after the binding of the result if there is one
Callee(line) ==
    LET call == IF StartsWith(line, "result = ") THEN SubSeq(line, 10, Len(line)) ELSE line
    IN  SubSeq(call, 1, FindFrom(call, "(", 1) - 1)

\* C7: deterministic-assembler guarantee.  For a non-empty chunk list the
\* code of build_deterministic_code has exactly one call statement per
\* chunk, in input order, each invoking that chunk's func_name (the print of
\* the result aside), and every name an import line lists is the func_name of
\* a chunk whose filename is the module of that line.
C7_DeterministicGuarantee ==
    (br_det.done /\ Len(br_chunks) > 0) =>
        LET calls == SelectSeq(LinesOf(DetCode), IsCallStatement)
            imports == SelectSeq(LinesOf(DetCode), IsImportLine)
        IN  /\ Len(calls) = Len(br_chunks)
            /\ \A i \in 1..Len(calls) : Callee(calls[i]) = br_chunks[i].func_name
            /\ Len(imports) > 0
            /\ \A k \in 1..Len(imports) :
                  LET words == FindAllWords(imports[k])
                  IN  /\ Len(words) >= 4
                      /\ words[3] = "import"
                      /\ \A j \in 4..Len(words) :
                            \E i \in 1..Len(br_chunks) :
                                /\ br_chunks[i].func_name = words[j]
                                /\ br_chunks[i].filename = words[2]

\* two functions of one file and one of another: a grouped import line
C7_Witness ==
    /\ br_det.done
    /\ Len(br_chunks) = 2
    /\ br_chunks[1].filename /= br_chunks[2].filename
    /\ br_chunks[1].func_name /= br_chunks[2].func_name
    /\ Len(SelectSeq(LinesOf(DetCode), IsImportLine)) = 2

\* C8: build_deterministic_code on an empty chunk list returns a result
\* whose code is a statement that raises a runtime error.
C8_EmptyChunksRaise ==
    (br_det.done /\ Len(br_chunks) = 0) =>
        (br_det.result.filename = "output.py" /\ RaisesError(DetCode))

\* ------------------------------------------------------------------------
\* The assembler of the interactive workflow (src/src/assembler.py)
\* ------------------------------------------------------------------------

\* Assembler._mock_response()
MockResponse ==
    [reasoning |-> "MOCK MODE: Model not available or no chunks provided.",
     code |-> "def main():\n    print('This is generated glue code stub.')\n"
              \o "    # Invoking chunks would go here",
     filename |-> "generated_script.py"]

\* the except branch of _parse_response (the reasoning quotes the exception,
\* whose text is left out here)
ParseErrorOutput ==
    [reasoning |-> "Parse error",
     code |-> "# Failed to parse model output\npass",
     filename |-> "generated_script.py"]

RECURSIVE StripPythonLines(_, _)
\* re.sub(r'^python3?\s*\n', '', code, flags=re.MULTILINE): a line that is
\* the word python or python3, with the blank lines that follow it
StripPythonLines(s, i) ==
    LET after(k) == IF StartsAt(s, k + 6, "3") THEN k + 7 ELSE k + 6
        last(k) == { n \in after(k)..(SkipSpaces(s, after(k)) - 1) : Ch(s, n) = "\n" }
        at == { k \in i..Len(s) : AtLineStart(s, k) /\ StartsAt(s, k, "python") /\ last(k) /= {} }
    IN  IF at = {} THEN SubSeq(s, i, Len(s))
        ELSE SubSeq(s, i, Min(at) - 1) \o StripPythonLines(s, Max(last(Min(at))) + 1)

\* Assembler._clean_code(code)
LegacyCleanCode(code) ==
    Strip(Join(Split(StripPythonLines(
                         StripClosingFences(StripOpeningFences(code, 1), 1), 1),
                     Fence), ""))

RECURSIVE SearchReasoning(_, _)
\* re.search(r'\{[^{}]*"reasoning"[^{}]*\}', response, re.DOTALL)
SearchReasoning(s, i) ==
    LET open == NextBrace(s, i)
    IN  IF open = 0 THEN None
        ELSE IF Ch(s, open) = "}" THEN SearchReasoning(s, open + 1)
        ELSE LET close == NextBrace(s, open + 1)
             IN  IF close = 0 THEN None
                 ELSE IF Ch(s, close) = "}"
                         /\ Contains(SubSeq(s, open + 1, close - 1), ReasoningKey)
                      THEN Some(SubSeq(s, open, close))
                 ELSE SearchReasoning(s, open + 1)

\* re.search(r'\{.*\}', response, re.DOTALL): the first opening brace to the
\* last closing brace
SearchBraces(s) ==
    LET open == FindFrom(s, "{", 1)
        closes == { k \in (open + 1)..Len(s) : Ch(s, k) = "}" }
    IN  IF open = 0 \/ closes = {} THEN None ELSE Some(SubSeq(s, open, Max(closes)))

\* lines 122-126 of _parse_response on the loaded data: the code field is
\* cleaned (a code that is no text raises), and CompilerOutput(**data) needs
\* reasoning, code and filename, each a text
CompilerOutputOf(loaded) ==
    IF ~loaded.ok THEN ParseErrorOutput
    ELSE IF DictHas(loaded.obj, "code") /\ DictGet(loaded.obj, "code").t /= "str"
         THEN ParseErrorOutput
    ELSE IF \E k \in {"reasoning", "filename"} :
               ~DictHas(loaded.obj, k) \/ DictGet(loaded.obj, k).t /= "str"
         THEN ParseErrorOutput
    ELSE [reasoning |-> DictGet(loaded.obj, "reasoning").v,
          code |-> LegacyCleanCode(IF DictHas(loaded.obj, "code")
                                   THEN DictGet(loaded.obj, "code").v ELSE ""),
          filename |-> DictGet(loaded.obj, "filename").v]

\* Assembler._parse_response(response).  Without a brace region the text is
\* no JSON object, and loading or reading it raises.
ParseResponse(response) ==
    LET first == SearchReasoning(response, 1)
        json_match == IF first.some THEN first ELSE SearchBraces(response)
    IN  IF ~json_match.some THEN ParseErrorOutput
        ELSE CompilerOutputOf(JsonLoads(json_match.val))

\* Assembler._build_prompt(chunks, user_request)
LegacyBuildPrompt(chunks, user_request) ==
    "<|im_start|>system\n"
    \o "You are a deterministic code assembler. You MUST follow these rules EXACTLY:\n\n"
    \o "1. OUTPUT FORMAT: Respond with ONLY valid JSON:\n"
    \o "   {\"reasoning\": \"explanation\", \"code\": \"python code\", \"filename\": \"output.py\"}\n\n"
    \o "2. REQUIRED IMPORTS - You MUST start your code with these exact imports:\n"
    \o GlueImportBlock(chunks)
    \o "\n\n3. RULES:\n   - Use ONLY the functions provided below\n"
    \o "   - Do NOT invent new functions\n"
    \o "   - Do NOT use markdown fences in the code field\n"
    \o "   - Output raw Python code only<|im_end|>\n<|im_start|>user\n"
    \o "USER REQUEST: " \o user_request \o "\n\nAVAILABLE FUNCTIONS:\n"
    \o Join([i \in 1..Len(chunks) |->
                "# From " \o Get(chunks[i], "filename", "unknown") \o ".py - function: "
                \o Get(chunks[i], "func_name", "unknown") \o "\n"
                \o Get(chunks[i], "source", "")],
            "\n\n")
    \o "\n\nGenerate the glue code as JSON (remember to include the imports):"
    \o "<|im_end|>\n<|im_start|>assistant\n"

\* Assembler.generate_glue_code(retrieved_chunks, user_request): the output,
\* the number of model calls and the prompt the model got, if it was
\* called.  The method takes no error_context.  What the model answers is
\* the environment's choice.
AssemblerGenerate(retrieved_chunks, user_request, model) ==
    IF model.loaded /\ Len(retrieved_chunks) > 0
    THEN [output |-> IF model.raises THEN MockResponse ELSE ParseResponse(model.response),
          model_calls |-> 1,
          prompt |-> Some(LegacyBuildPrompt(retrieved_chunks, user_request))]
    ELSE [output |-> MockResponse, model_calls |-> 0, prompt |-> None]

\* ------------------------------------------------------------------------
\* Interactive workflow (src/src/main.py)
\* ------------------------------------------------------------------------

\* index_files skips what lies under venv or __pycache__, what is no .py
\* file, and test_dummy.py
Indexable(path) ==
    LET dir == SubSeq(path, 1, LastIndexOf(path, "/") - 1)
        name == Basename(path)
    IN  /\ ~Contains(dir, "venv")
        /\ ~Contains(dir, "__pycache__")
        /\ Len(name) >= 3 /\ SubSeq(name, Len(name) - 2, Len(name)) = ".py"
        /\ name /= "test_dummy.py"

RECURSIVE IndexFilesResult(_, _, _)
\* the loop of index_files over the walked files: parse_file on each
\* indexable file, an exception caught and the walk continued.  st is
\* [index, current_file, calls, prev, files_indexed].
IndexFilesResult(st, parser_ok, files) ==
    IF Len(files) = 0 THEN st
    ELSE IF ~Indexable(files[1].path) THEN IndexFilesResult(st, parser_ok, Tail(files))
    ELSE LET r == ParseFileResult(st.index, st.current_file, parser_ok, files[1])
         IN  IndexFilesResult(
                 [index |-> r.index, current_file |-> r.current_file,
                  calls |-> (IF Len(st.calls) = 2 THEN Tail(st.calls) ELSE st.calls)
                            \o << [file |-> files[1].path, raised |-> r.raised] >>,
                  prev |-> st.index,
                  files_indexed |-> st.files_indexed + (IF r.raised THEN 0 ELSE 1)],
                 parser_ok, Tail(files))

\* the workspaces main() may be started in
Walks ==
    { << >>,
      << UtilsFile, [UtilsFile EXCEPT !.path = "./venv/utils.py"], UsersFile,
         [UsersFile EXCEPT !.path = "./test_dummy.py"],
         [LockedFile EXCEPT !.path = "./notes.txt"] >>,
      Workspace }

MainQueries == { "exit", "  ", "run foo", "database migration", "create user", "foo return" }

\* what the model answers in the interactive workflow
MainModels ==
    { m \in Models :
        \/ ~m.loaded
        \/ m.raises
        \/ \E part \in { "Here is the JSON", "oops", "cannot", "print(foo(1)\"," } :
              Contains(m.response, part) }

\* setup_components(): Indexer(), IntersectionEngine(), Assembler()
SetupComponents ==
    /\ main_pc = "start"
    /\ main_pc' = "indexing"
    /\ idx_index' = EmptyDict
    /\ idx_current' = None
    /\ idx_calls' = << >>
    /\ idx_prev' = EmptyDict
    /\ ret_index' = LoadIndex(disk)
    /\ ret_missing' = ~disk.exists
    /\ UNCHANGED << idx_parser, disk, ret_last, br_vars, main_loaded, main_walk, main_turn,
                    wire_vars >>

\* index_files(indexer), then retriever._load_index()
IndexFiles ==
    /\ main_pc = "indexing"
    /\ LET st == IndexFilesResult(
                     [index |-> idx_index, current_file |-> idx_current, calls |-> << >>,
                      prev |-> idx_index, files_indexed |-> 0],
                     idx_parser, main_walk)
       IN  /\ idx_index' = st.index
           /\ idx_current' = st.current_file
           /\ idx_calls' = << >>
           /\ idx_prev' = st.prev
           /\ disk' = ExportIndex(st.index)
           /\ ret_index' = LoadIndex(ExportIndex(st.index))
           /\ ret_missing' = FALSE
    /\ main_pc' = "prompt"
    /\ UNCHANGED << idx_parser, ret_last, br_vars, main_loaded, main_walk, main_turn,
                    wire_vars >>

\* one pass of the loop from Prompt.ask to the panels: exit, skip a blank
\* query, or retrieve and assemble
AskQuery(query, model) ==
    /\ main_pc = "prompt"
    /\ model.loaded = main_loaded
    /\ IF ToLower(query) \in {"exit", "quit", "q"}
       THEN /\ main_pc' = "exit"
            /\ UNCHANGED << ret_last, main_turn >>
       ELSE IF Strip(query) = ""
       THEN UNCHANGED << main_pc, ret_last, main_turn >>
       ELSE LET results == Search(ret_index, query)
                retrieved_context == IF results.some THEN results.val ELSE << >>
                g == AssemblerGenerate(retrieved_context, query, model)
            IN  /\ ret_last' = [done |-> TRUE, query |-> query, index |-> ret_index,
                                result |-> results]
                /\ main_turn' = [query |-> query, results |-> results, output |-> g.output,
                                 model_calls |-> g.model_calls,
                                 assembler_calls |-> << [error_context |-> None,
                                                         prompt |-> g.prompt] >>,
                                 written |-> None, check |-> None, stderr |-> None,
                                 verified |-> FALSE, ran |-> FALSE]
                /\ main_pc' = "confirm_save"
    /\ UNCHANGED << idx_vars, disk, ret_index, ret_missing, br_vars, main_loaded, main_walk,
                    wire_vars >>

\* what py_compile writes to stderr for a file that does not compile (the
\* interpreter's wording is left out)
CompileStderr == "SyntaxError: invalid syntax"

\* the compile check of compile_and_fix on a written code: subprocess.run
\* raises, or py_compile exits with zero or not
CompileCheck(code, raises) ==
    IF raises THEN "raised" ELSE IF Compiles(code) THEN "zero" ELSE "nonzero"

\* ConfirmSave as it would be if the run were offered whatever
\* compile_and_fix returned
ConfirmSaveAlwaysOffers(answer, raises) ==
    /\ main_pc = "confirm_save"
    /\ IF answer
       THEN LET check == CompileCheck(main_turn.output.code, raises)
            IN  /\ main_turn' = [main_turn EXCEPT
                                    !.written = Some([filename |-> main_turn.output.filename,
                                                      code |-> main_turn.output.code]),
                                    !.check = Some(check),
                                    !.stderr = IF check = "nonzero"
                                               THEN Some(CompileStderr) ELSE None,
                                    !.verified = (check = "zero")]
                /\ main_pc' = "confirm_run"
       ELSE /\ main_pc' = "prompt"
            /\ UNCHANGED main_turn
    /\ UNCHANGED << idx_vars, disk, ret_vars, br_vars, main_loaded, main_walk, wire_vars >>

\* Confirm.ask("save and verify"): on yes VerificationLoop.compile_and_fix
\* writes the file and runs the compile check; it returns true on a zero
\* exit, prints the stderr and returns false on another exit, and returns
\* false when the check raises; on success the run is offered, on failure
\* the loop goes on to the next prompt
ConfirmSave(answer, raises) ==
    /\ main_pc = "confirm_save"
    /\ IF answer
       THEN LET check == CompileCheck(main_turn.output.code, raises)
            IN  /\ main_turn' = [main_turn EXCEPT
                                    !.written = Some([filename |-> main_turn.output.filename,
                                                      code |-> main_turn.output.code]),
                                    !.check = Some(check),
                                    !.stderr = IF check = "nonzero"
                                               THEN Some(CompileStderr) ELSE None,
                                    !.verified = (check = "zero")]
                /\ main_pc' = IF check = "zero" THEN "confirm_run" ELSE "prompt"
       ELSE /\ main_pc' = "prompt"
            /\ UNCHANGED main_turn
    /\ UNCHANGED << idx_vars, disk, ret_vars, br_vars, main_loaded, main_walk, wire_vars >>

\* Confirm.ask("Run now?"): on yes the written file is executed
ConfirmRun(answer) ==
    /\ main_pc = "confirm_run"
    /\ main_turn' = [main_turn EXCEPT !.ran = answer]
    /\ main_pc' = "prompt"
    /\ UNCHANGED << idx_vars, disk, ret_vars, br_vars, main_loaded, main_walk, wire_vars >>

\* main() starts in a workspace, with or without an earlier index file, the
\* grammar and the model available or not
InitMain ==
    /\ idx_parser \in BOOLEAN
    /\ IndexerIdle
    /\ disk \in { MissingFile, ExportIndex(LegacyIndex) }
    /\ RetrieverIdle
    /\ BridgeIdle
    /\ main_pc = "start"
    /\ main_loaded \in BOOLEAN
    /\ main_walk \in Walks
    /\ main_turn = NoTurn
    /\ WireIdle

NextMain ==
    \/ SetupComponents
    \/ IndexFiles
    \/ \E query \in MainQueries, model \in MainModels : AskQuery(query, model)
    \/ \E answer \in BOOLEAN, raises \in BOOLEAN : ConfirmSave(answer, raises)
    \/ \E answer \in BOOLEAN : ConfirmRun(answer)

SpecMain == InitMain /\ [][NextMain]_vars

\* ------------------------------------------------------------------------
\* Properties of the deterministic assembler and of the validators
\* ------------------------------------------------------------------------

\* the number of parameters a call passes: the chunk's parameters, a leading
\* self not counted
Arity(chunk) ==
    LET params == chunk.signature.params
    IN  IF Len(params) > 0 /\ params[1] = "self" THEN Len(params) - 1 ELSE Len(params)

\* an earlier call of the script bound result
BoundBefore(chunks, i) == \E h \in 1..(i - 1) : Arity(chunks[h]) > 0

\* the number of argument positions of call i that take a query integer
IntegerSlots(chunks, i) ==
    IF Arity(chunks[i]) = 0 THEN 0
    ELSE IF BoundBefore(chunks, i) THEN Arity(chunks[i]) - 1
    ELSE Arity(chunks[i])

RECURSIVE SlotsBefore(_, _)
SlotsBefore(chunks, i) ==
    IF i <= 1 THEN 0 ELSE SlotsBefore(chunks, i - 1) + IntegerSlots(chunks, i - 1)

\* the argument at position j (from 0) of call i
ExpectedArg(chunks, query, i, j) ==
    LET integers == FindAllDigits(query)
        slot == SlotsBefore(chunks, i) + (IF BoundBefore(chunks, i) THEN j - 1 ELSE j)
    IN  IF j = 0 /\ BoundBefore(chunks, i) THEN "result"
        ELSE IF slot < Len(integers) THEN integers[slot + 1]
        ELSE NatToStr(10 + j)

ExpectedCall(chunks, query, i) ==
    IF Arity(chunks[i]) = 0 THEN chunks[i].func_name \o "()"
    ELSE "result = " \o chunks[i].func_name \o "("
         \o Join([a \in 1..Arity(chunks[i]) |-> ExpectedArg(chunks, query, i, a - 1)], ", ")
         \o ")"

\* the line that follows the comment of step i
CallOfStep(lines, i) ==
    LET at == { n \in 1..(Len(lines) - 1) :
                   StartsWith(lines[n], "# Step " \o NatToStr(i) \o ":") }
    IN  IF Cardinality(at) = 1 THEN lines[(CHOOSE n \in at : TRUE) + 1] ELSE ""

\* every step of a script has the call the rule gives
CallsAsExpected(chunks, query, lines) ==
    \A i \in 1..Len(chunks) : CallOfStep(lines, i) = ExpectedCall(chunks, query, i)

\* C15: argument filling in build_deterministic_code.  Walking the chunks in
\* order, a call with k > 0 parameters takes result as its first argument
\* if an earlier call bound it, every other argument takes the next unused
\* integer of the query in left-to-right order (each used at most once
\* across the script), position j receives 10 + j once the integers are
\* exhausted, every call with k > 0 is bound to result and every call
\* without parameters is emitted unbound.
C15_ArgumentFilling ==
    (br_det.done /\ Len(br_chunks) > 0) =>
        CallsAsExpected(br_chunks, br_query, LinesOf(br_det.result.code))

\* two calls of two parameters on a query of two integers: the first call
\* takes both, the second takes result and the default of position 1
C15_Witness ==
    /\ br_det.done
    /\ Len(br_chunks) = 2
    /\ Contains(br_det.result.code, "result = create_user(5, 7)")
    /\ Contains(br_det.result.code, "result = create_user(result, 11)")

\* the model's code after cleaning: the code field of the JSON object found
\* in the response, cleaned; None when the response yields no such text
CleanedCodeOf(loaded) ==
    IF ~loaded.ok THEN None
    ELSE IF ~DictHas(loaded.obj, "code") THEN Some(CleanCode(""))
    ELSE IF DictGet(loaded.obj, "code").t /= "str" THEN None
    ELSE Some(CleanCode(DictGet(loaded.obj, "code").v))

JsonOfMatch(match) == IF match.some THEN CleanedCodeOf(JsonLoads(match.val)) ELSE None

ModelCode(model) ==
    IF model.loaded /\ ~model.raises THEN JsonOfMatch(SearchJson(model.response, 1)) ELSE None

MentionsNone(chunks, cleaned) ==
    /\ cleaned.some
    /\ \A i \in 1..Len(chunks) : ~Contains(cleaned.val, chunks[i].func_name)

\* C16: function-usage validator.  Whenever the model's code (after
\* cleaning) does not mention any retrieved func_name as a substring,
\* generate_glue_code returns the output of the deterministic assembler
\* instead of the model's code.
C16_FunctionUsageValidator ==
    (br_out.done /\ Len(br_chunks) > 0 /\ MentionsNone(br_chunks, ModelCode(br_out.model))) =>
        br_out.out.result = BuildDeterministicCode(br_chunks, br_query)

\* an assignment line: contains "=", none of ==, !=, <=, >=, and starts
\* with neither "#" nor "def "
IsAssignmentLine(line) ==
    /\ Contains(line, "=")
    /\ \A op \in {"==", "!=", "<=", ">="} : ~Contains(line, op)
    /\ ~StartsWith(line, "#")
    /\ ~StartsWith(line, "def ")

\* the texts left and right of the first "=" of a line
LeftOf(line) == Strip(SubSeq(line, 1, FindFrom(line, "=", 1) - 1))
RightOf(line) == Strip(SubSeq(line, FindFrom(line, "=", 1) + 1, Len(line)))

\* name was the left-hand side of an assignment line before line n
DefinedBefore(lines, n, name) ==
    \E h \in 1..(n - 1) : IsAssignmentLine(Strip(lines[h])) /\ LeftOf(Strip(lines[h])) = name

\* some assignment line reads a sentinel that no earlier line defined
ReadsUndefinedSentinel(lines) ==
    \E n \in 1..Len(lines) :
        /\ IsAssignmentLine(Strip(lines[n]))
        /\ \E name \in {"result", "output", "value", "total"} :
              /\ Contains(RightOf(Strip(lines[n])), name)
              /\ ~DefinedBefore(lines, n, name)

\* the model's code with the import block in front, as the validators read it
ValidatedText(chunks, cleaned) ==
    IF Contains(cleaned, GlueImportBlock(chunks)) THEN cleaned
    ELSE GlueImportBlock(chunks) \o "\n\n" \o cleaned

FellBack ==
    /\ br_out.out.outcome = "fallback"
    /\ br_out.out.result = BuildDeterministicCode(br_chunks, br_query)

\* the use-before-define rule as stated, on the model's cleaned code
FallsBackIffSentinel(cleaned) ==
    cleaned.some => (FellBack <=> ReadsUndefinedSentinel(LinesOf(cleaned.val)))

\* C17 as stated: generate_glue_code falls back to the deterministic
\* assembler if and only if some assignment line of the model's code has a
\* right-hand side containing a sentinel name (result, output, value,
\* total) that was not the single-identifier left-hand side of an earlier
\* assignment line.
C17_FallbackIffUseBeforeDefine ==
    (br_out.done /\ Len(br_chunks) > 0) => FallsBackIffSentinel(ModelCode(br_out.model))

\* the use-before-define rule on model code that compiles with the import
\* block in front
SentinelRule(cleaned) ==
    (cleaned.some /\ Compiles(ValidatedText(br_chunks, cleaned.val))) =>
        IF ReadsUndefinedSentinel(LinesOf(cleaned.val))
        THEN FellBack
        ELSE (HasPrint(cleaned.val) \/ HasResultAssignment(cleaned.val)) =>
                 /\ br_out.out.outcome = "ok"
                 /\ Contains(br_out.out.result.code, cleaned.val)

\* C17 amended: for model code that compiles with the import block in
\* front, a sentinel read before an earlier assignment line defined it makes
\* generate_glue_code fall back to the deterministic assembler; code without
\* such a read is not rejected by this validator, so that code that also
\* prints or binds result is returned as the model's code.  A sentinel
\* defined on an earlier line never triggers the fallback on a later line.
C17_UseBeforeDefineValidator ==
    (br_out.done /\ Len(br_chunks) > 0) => SentinelRule(ModelCode(br_out.model))

\* the model's code compiles with the import block in front and reads a
\* sentinel before any line defines it
TripsSentinelScan(cleaned) ==
    /\ cleaned.some
    /\ ReadsUndefinedSentinel(LinesOf(cleaned.val))
    /\ Compiles(ValidatedText(br_chunks, cleaned.val))

\* code that compiles and reads value before any line defines it: the call
\* fell back
C17_Witness ==
    /\ br_out.done
    /\ Len(br_chunks) > 0
    /\ FellBack
    /\ TripsSentinelScan(ModelCode(br_out.model))

\* the validator that ends the call on a text, in the order function usage,
\* syntax, use-before-define, completeness ("validated" when none fails)
FirstFailing(chunks, text) ==
    IF \A i \in 1..Len(chunks) : ~Contains(text, chunks[i].func_name) THEN "usage"
    ELSE IF ~Compiles(text) THEN "syntax"
    ELSE IF ReadsUndefinedSentinel(LinesOf(text)) THEN "use_before_define"
    ELSE IF ~HasPrint(text) /\ ~HasResultAssignment(text) THEN "completeness"
    ELSE "validated"

\* the stage at which a call leaves the chain prompt construction, model
\* call, response parsing, validation
StageReached(model, cleaned) ==
    IF ~model.loaded THEN "prompt_built"
    ELSE IF model.raises THEN "model_called"
    ELSE IF ~cleaned.some THEN "response_parsed"
    ELSE "validated"

\* the outcome of a call that reached validation with the text the
\* validators read
ValidationOutcome(text) ==
    /\ br_out.out.via = FirstFailing(br_chunks, text)
    /\ br_out.out.outcome = "ok" <=> br_out.out.via = "validated"
    /\ br_out.out.outcome = "ok" => Contains(br_out.out.result.code, text)

\* the outcome of a call by the stage at which it left the chain
StageOutcome(cleaned) ==
    IF StageReached(br_out.model, cleaned) = "validated"
    THEN ValidationOutcome(ValidatedText(br_chunks, cleaned.val))
    ELSE br_out.out.outcome = "fallback"

\* C18: assembler state machine.  Every call of generate_glue_code with
\* non-empty chunks goes through prompt construction, model call, response
\* parsing and validation in that order, invokes the model at most once and
\* the deterministic assembler at most once, never retries, and ends in
\* exactly one of the outcomes ok (the validated model code is returned)
\* and fallback (the deterministic assembler's result is returned); the
\* validators are applied in the order import injection, function usage,
\* syntax, use-before-define, completeness, and the first failing one ends
\* the call.
C18_AssemblerStateMachine ==
    (br_out.done /\ Len(br_chunks) > 0) =>
        /\ br_out.out.outcome \in {"ok", "fallback"}
        /\ br_out.out.model_calls = (IF br_out.model.loaded THEN 1 ELSE 0)
        /\ br_out.out.det_calls = (IF br_out.out.outcome = "fallback" THEN 1 ELSE 0)
        /\ br_out.out.outcome = "fallback" =>
              br_out.out.result = BuildDeterministicCode(br_chunks, br_query)
        /\ StageOutcome(ModelCode(br_out.model))

\* the model's code fails the syntax validator and would fail the two later
\* validators as well
FailsThreeValidators(cleaned) ==
    /\ cleaned.some
    /\ ~HasPrint(cleaned.val)
    /\ ~HasResultAssignment(cleaned.val)
    /\ ReadsUndefinedSentinel(LinesOf(cleaned.val))
    /\ ~Compiles(ValidatedText(br_chunks, cleaned.val))

\* a call whose model code fails the syntax validator and would fail the
\* two later validators as well: the call ended with the fallback
C18_Witness ==
    /\ br_out.done
    /\ Len(br_chunks) > 0
    /\ br_out.out.via = "syntax"
    /\ FellBack
    /\ FailsThreeValidators(ModelCode(br_out.model))

\* ------------------------------------------------------------------------
\* Properties of the interactive workflow
\* ------------------------------------------------------------------------

\* C9: insufficient data is propagated as a grounded error.  In the REPL,
\* when search returned null for the query, the assembly result is the
\* structured insufficient-data error, its code raises a runtime error, and
\* the model was not invoked.
C9_InsufficientDataError ==
    (main_pc \in {"confirm_save", "confirm_run"} /\ ~main_turn.results.some) =>
        /\ main_turn.output = InsufficientDataResult
        /\ RaisesError(main_turn.output.code)
        /\ main_turn.model_calls = 0

\* C13: re-prompt with error context.  When the compile check of the saved
\* script failed, the assembler was invoked a second time for the query with
\* error_context equal to the captured stderr and a prompt that holds the
\* previous-attempt-failed section with that stderr; no query sees more than
\* one re-prompt.
C13_RepromptWithErrorContext ==
    /\ Len(main_turn.assembler_calls) <= 2
    /\ (main_turn.written.some /\ ~main_turn.verified) =>
          /\ Len(main_turn.assembler_calls) = 2
          /\ main_turn.assembler_calls[2].error_context = main_turn.stderr
          /\ main_turn.assembler_calls[2].prompt.some =>
                Contains(main_turn.assembler_calls[2].prompt.val,
                         ErrorSection(main_turn.stderr))

\* C21: the assembled script is executed only after verification succeeded.
\* Within one pass of the loop the script is run only if the user confirmed
\* saving, compile_and_fix then wrote the code to the file and returned true
\* (the compile check exited with zero), and the user then confirmed
\* running; a script whose compile check failed or raised is never executed,
\* and compile_and_fix returns true only when the compile check exited with
\* zero.
C21_RunOnlyAfterVerification ==
    /\ main_turn.verified =>
          /\ main_turn.check = Some("zero")
          /\ main_turn.written.some
          /\ Compiles(main_turn.written.val.code)
    /\ (main_turn.ran \/ main_pc = "confirm_run") =>
          /\ main_turn.verified
          /\ main_turn.written = Some([filename |-> main_turn.output.filename,
                                       code |-> main_turn.output.code])
    /\ main_turn.check \in {Some("nonzero"), Some("raised")} => ~main_turn.ran

\* a script that compiles was saved, verified and run
C21_Witness ==
    /\ main_turn.ran
    /\ main_turn.verified
    /\ main_turn.written.some
    /\ main_pc = "prompt"

\* ------------------------------------------------------------------------
\* Properties of the indexing batch
\* ------------------------------------------------------------------------

\* Python dict equality: the same keys with the same values, in any order
DictEq(d1, d2) == Range(d1) = Range(d2)

\* the walked files in the order a permutation p of their positions gives
Reordered(files, p) == [i \in 1..Len(files) |-> files[p[i]]]

\* the index index_files leaves when it starts on an empty index
BatchIndex(parser_ok, files) ==
    IndexFilesResult([index |-> EmptyDict, current_file |-> None, calls |-> << >>,
                      prev |-> EmptyDict, files_indexed |-> 0],
                     parser_ok, files).index

\* C11: order independence of the indexing batch.  Once index_files has run
\* over the walked files, the index equals the index the batch leaves for
\* every other order of the same files.
C11_BatchOrderIndependence ==
    main_pc \notin {"start", "indexing"} =>
        \A p \in Permutations(1..Len(main_walk)) :
            DictEq(BatchIndex(idx_parser, Reordered(main_walk, p)), idx_index)

\* the walked files without the file at position k
Without(files, k) == SubSeq(files, 1, k - 1) \o SubSeq(files, k + 1, Len(files))

\* parse_file raises for the file
RaisesFor(parser_ok, file) == ParseFileResult(EmptyDict, None, parser_ok, file).raised

\* C20: a file that cannot be indexed is skipped as a whole.  If parse_file
\* raises for a file during the indexing batch, the index after the batch
\* equals the index of the batch run without that file, the remaining files
\* are still parsed, and the index is still exported.
C20_FailingFileSkipped ==
    main_pc \notin {"start", "indexing"} =>
        /\ disk = ExportIndex(idx_index)
        /\ \A k \in 1..Len(main_walk) :
              RaisesFor(idx_parser, main_walk[k]) =>
                  DictEq(idx_index, BatchIndex(idx_parser, Without(main_walk, k)))

\* ------------------------------------------------------------------------
\* assembler_bridge run as a script (the wire protocol, lines 280-295)
\* ------------------------------------------------------------------------

\* one character of a text as json.dumps writes it inside a string
JsonEscapeChar(c) ==
    IF c = "\"" THEN "\\\"" ELSE IF c = "\\" THEN "\\\\"
    ELSE IF c = "\n" THEN "\\n" ELSE IF c = "\t" THEN "\\t"
    ELSE IF c = "\r" THEN "\\r" ELSE c

JsonEscape(s) == ConcatRange([i \in 1..Len(s) |-> JsonEscapeChar(Ch(s, i))], 1, Len(s))

\* json.dumps(result) of a result whose three fields are texts
JsonDumps(result) ==
    "{\"reasoning\": \"" \o JsonEscape(result.reasoning)
    \o "\", \"code\": \"" \o JsonEscape(result.code)
    \o "\", \"filename\": \"" \o JsonEscape(result.filename) \o "\"}"

\* the except branch of the script (the reasoning quotes the exception, whose
\* text is left out here)
JsonParseErrorResult ==
    [reasoning |-> "JSON Parse Error: ", code |-> "# Error parsing input",
     filename |-> "output.py"]

\* request.get(k, default) on the decoded request
RequestGet(request, k, default) == IF DictHas(request, k) THEN DictGet(request, k) ELSE default

\* Python truth value of a decoded JSON value
Truthy(v) ==
    IF v.t = "str" THEN v.v /= ""
    ELSE IF v.t = "num" THEN v.v /= "0"
    ELSE IF v.t = "lit" THEN v.v = "true"
    ELSE Len(v.v) > 0

\* the text an f-string gives for a decoded value that is a text, an integer
\* or a literal
FormatValue(v) ==
    IF v.t = "lit" THEN (IF v.v = "null" THEN "None" ELSE IF v.v = "true" THEN "True" ELSE "False")
    ELSE v.v

\* the first loop of generate_glue_code (lines 168-175) raises on this chunk
\* value: it is no object (no .get), its filename cannot be a dict key, or
\* its func_name is no text (str.join)
ChunkRaisesEarly(c) ==
    \/ c.t /= "obj"
    \/ DictHas(c.v, "filename") /\ DictGet(c.v, "filename").t \in {"arr", "obj"}
    \/ DictHas(c.v, "func_name") /\ DictGet(c.v, "func_name").t /= "str"

\* the params build_deterministic_code reads (lines 77-82, 92) from the
\* decoded signature of a chunk object: [ok, params]; not ok when reading
\* them raises
DecodedParams(c) ==
    IF ~DictHas(c, "signature") THEN [ok |-> TRUE, params |-> << >>]
    ELSE LET sig == DictGet(c, "signature")
         IN  IF sig.t /= "obj" THEN [ok |-> FALSE]
             ELSE IF ~DictHas(sig.v, "params") THEN [ok |-> TRUE, params |-> << >>]
             ELSE LET params == DictGet(sig.v, "params")
                  IN  IF params.t = "arr"
                      THEN [ok |-> TRUE,
                            params |-> [i \in 1..Len(params.v) |->
                                           IF params.v[i].t = "str" THEN params.v[i].v
                                           ELSE "<" \o params.v[i].t \o ">"]]
                      ELSE IF params.t = "str"
                      THEN [ok |-> TRUE, params |-> [i \in 1..Len(params.v) |-> Ch(params.v, i)]]
                      ELSE IF params.t = "obj" /\ Len(params.v) = 0
                      THEN [ok |-> TRUE, params |-> << >>]
                      ELSE [ok |-> FALSE]

\* the chunk generate_glue_code works on, from a decoded chunk object that
\* passes the first loop
ChunkOf(c) ==
    LET texts == { k \in {"source", "filename", "func_name"} : DictHas(c, k) }
        params == DecodedParams(c)
        sig == IF DictHas(c, "signature") /\ params.ok THEN {"signature"} ELSE {}
    IN  [k \in texts \cup sig |->
            IF k = "signature" THEN [params |-> params.params, returns |-> None]
            ELSE FormatValue(DictGet(c, k))]

\* the end of a run that reached generate_glue_code: the result is printed,
\* unless build_deterministic_code was reached and raises (a query that is no
\* text at line 100, a signature or params that cannot be read at lines 78-92)
WirePrint(out, det_raises) ==
    IF out.det_calls > 0 /\ det_raises THEN [stdout |-> << >>, crashed |-> TRUE]
    ELSE [stdout |-> << JsonDumps(out.result) >>, crashed |-> FALSE]

\* generate_glue_code(chunks, query) on the decoded chunks and query, and
\* print(json.dumps(result))
WireRequest(chunks, query, model) ==
    IF ~Truthy(chunks)
    THEN [stdout |-> << JsonDumps(InsufficientDataResult) >>, crashed |-> FALSE]
    ELSE IF chunks.t /= "arr" \/ \E i \in 1..Len(chunks.v) : ChunkRaisesEarly(chunks.v[i])
    THEN [stdout |-> << >>, crashed |-> TRUE]
    ELSE WirePrint(GenerateGlueCode([i \in 1..Len(chunks.v) |-> ChunkOf(chunks.v[i].v)],
                                    IF query.t = "str" THEN query.v ELSE "", None, model),
                   \/ query.t /= "str"
                   \/ \E i \in 1..Len(chunks.v) : ~DecodedParams(chunks.v[i].v).ok)

\* the script after json.loads: the except branch for a text that is no
\* JSON, an uncaught AttributeError for a value without .get, otherwise the
\* request
WireDecoded(request, model) ==
    IF ~request.ok
    THEN [stdout |-> << JsonDumps(JsonParseErrorResult) >>, crashed |-> FALSE]
    ELSE IF request.val.t /= "obj" THEN [stdout |-> << >>, crashed |-> TRUE]
    ELSE WireRequest(RequestGet(request.obj, "chunks", [t |-> "arr", v |-> << >>]),
                     RequestGet(request.obj, "query", [t |-> "str", v |-> ""]), model)

\* the script: read stdin, decode, assemble, print; empty input prints nothing
WireMainResult(input_data, model) ==
    IF input_data = "" THEN [stdout |-> << >>, crashed |-> FALSE]
    ELSE WireDecoded(JsonLoadsValue(input_data), model)

\* what may arrive on stdin
StdinInputs ==
    { "",
      "   ",
      "not json",
      "{\"chunks\": [",
      "[1, 2]",
      "5",
      "{}",
      "{\"query\": \"run foo\"}",
      "{\"chunks\": [], \"query\": \"run foo\"}",
      "{\"chunks\": 5, \"query\": \"run foo\"}",
      "{\"chunks\": [\"foo\"], \"query\": \"run foo\"}",
      "{\"chunks\": [{\"source\": \"def foo(x):\\n    return 'foo'\", \"filename\": \"utils\", \"func_name\": \"foo\", \"signature\": {\"params\": [\"x\"], \"returns\": null}}], \"query\": \"run foo 7\"}",
      "{\"chunks\": [{\"source\": \"def foo(x):\\n    return 'foo'\", \"filename\": \"utils\", \"func_name\": \"foo\", \"signature\": {\"params\": [\"x\"], \"returns\": null}}, {\"source\": \"def create_user(self, name: str, age=1):\\n        pass\", \"filename\": \"users\", \"func_name\": \"create_user\", \"signature\": {\"params\": [\"self\", \"name\", \"age\"], \"returns\": null}}], \"query\": \"add 5 and 7\"}",
      "{\"chunks\": [{\"source\": \"def foo():\\n    return 'users'\", \"filename\": \"users\", \"func_name\": \"foo\"}]}",
      "{\"chunks\": [{\"filename\": \"utils\", \"func_name\": 5}], \"query\": \"run foo\"}",
      "{\"chunks\": [{\"filename\": \"utils\", \"func_name\": \"foo\", \"signature\": null}], \"query\": \"run foo\"}",
      "{\"chunks\": [{\"filename\": \"utils\", \"func_name\": \"foo\"}], \"query\": 7}" }

\* python assembler_bridge.py < wire_stdin, with the model answering as m
WireMain(m) ==
    /\ ~wire_run.done
    /\ m.loaded = br_loaded
    /\ wire_run' = [done |-> TRUE, model |-> m, run |-> WireMainResult(wire_stdin, m)]
    /\ UNCHANGED << idx_vars, disk, ret_vars, br_vars, main_vars, wire_stdin >>

InitWire ==
    /\ idx_parser = TRUE
    /\ IndexerIdle
    /\ disk = MissingFile
    /\ RetrieverIdle
    /\ br_chunks = << >>
    /\ br_query = ""
    /\ br_error = None
    /\ br_loaded \in BOOLEAN
    /\ br_out = NoCall
    /\ br_det = NoBuild
    /\ MainIdle
    /\ wire_stdin \in StdinInputs
    /\ wire_run = NoRun

NextWire == \E m \in Models : WireMain(m)

SpecWire == InitWire /\ [][NextWire]_vars

\* the text decodes to an object whose chunks is an array of objects and
\* whose query is a text
WellFormedRequest(text) ==
    LET j == JsonLoadsValue(text)
    IN  /\ j.ok
        /\ j.val.t = "obj"
        /\ DictHas(j.val.v, "chunks")
        /\ DictGet(j.val.v, "chunks").t = "arr"
        /\ \A i \in 1..Len(DictGet(j.val.v, "chunks").v) :
              DictGet(j.val.v, "chunks").v[i].t = "obj"
        /\ DictHas(j.val.v, "query")
        /\ DictGet(j.val.v, "query").t = "str"

\* the printed text is one JSON object with the text fields reasoning, code
\* and filename
IsResponseObject(text) ==
    LET j == JsonLoads(text)
    IN  /\ j.ok
        /\ \A k \in {"reasoning", "code", "filename"} :
              DictHas(j.obj, k) /\ DictGet(j.obj, k).t = "str"

\* C12: assembler wire protocol.  A run prints exactly one response and
\* ends without an exception; for a stdin text that is no well-formed
\* request the response's reasoning begins with JSON Parse Error and its
\* code is the placeholder; for a well-formed request the response is an
\* object with the fields reasoning, code and filename.
C12_WireProtocol ==
    wire_run.done =>
        /\ ~wire_run.run.crashed
        /\ Len(wire_run.run.stdout) = 1
        /\ IsResponseObject(wire_run.run.stdout[1])
        /\ ~WellFormedRequest(wire_stdin) =>
              /\ StartsWith(DictGet(JsonLoads(wire_run.run.stdout[1]).obj, "reasoning").v,
                            "JSON Parse Error")
              /\ DictGet(JsonLoads(wire_run.run.stdout[1]).obj, "code").v
                    = "# Error parsing input"

====
